---- MODULE Spec2Model ----
(***************************************************************************)
(* Migration of granule and file records from DynamoDB to PostgreSQL       *)
(* (lambdas/data-migration2/src/granulesAndFiles.ts).                      *)
(*                                                                         *)
(* One invocation of migrateGranuleAndFilesViaTransaction is a "task"; it  *)
(* advances through the awaits of the code: the lookups and the conflict   *)
(* detection of migrateGranuleRecord, the granule upsert, the file         *)
(* upserts, and the settling of the knex transaction together with the     *)
(* counters of the try/catch.  Writes made inside a transaction are held   *)
(* in the task until the transaction commits.                              *)
(***************************************************************************)
EXTENDS Integers, Sequences, FiniteSets, TLC

VARIABLES
  params,      \* granuleMigrationParams: [granuleId, collectionId]
  dynamo,      \* the DynamoDB granules table: granuleId -> record
  pgExecutions,\* the PostgreSQL executions table: url -> cumulus_id
  pgGranules,  \* the committed rows of the PostgreSQL granules table
  pgFiles,     \* the committed rows of the PostgreSQL files table
  result,      \* granulesAndFilesMigrationResult
  errorLog,    \* lines written to the error write stream
  stream,      \* state of the error write streams
  pc,          \* position of migrateGranulesAndFiles
  search,      \* the request made to DynamoDB: a query with its parameters, or a scan
  queue,       \* DynamoDbSearchQueue: the items of the query still queued
  unscanned,   \* parallelScan: the items no segment has returned yet
  segs,        \* parallelScan: per segment, its state and the items of its page not yet started
  tasks,       \* the invocations of migrateGranuleAndFilesViaTransaction
  runs,        \* number of invocations of migrateGranulesAndFiles so far
  handed,      \* the records handed to migrateGranuleAndFilesViaTransaction in this run
  progress,    \* the progress observations logged in this run: the totals they report
  exec,        \* the call of chooseTargetExecution: its arguments and its position
  pdr,         \* the PDR table and the last call of Pdr.storePdrFromCumulusMessage
  wait,        \* the call of waitForGranule: its arguments, its attempts and its position
  removal      \* the call of removePublishedGranule: the requests it made and its position

\* The variables of migrateGranulesAndFiles.
migration ==
  <<params, dynamo, pgExecutions, pgGranules, pgFiles, result, errorLog, stream, pc,
    search, queue, unscanned, segs, tasks, runs, handed, progress>>

vars == <<params, dynamo, pgExecutions, pgGranules, pgFiles, result, errorLog, stream, pc,
          search, queue, unscanned, segs, tasks, runs, handed, progress, exec, pdr,
          wait, removal>>

----------------------------------------------------------------------------
(* Bounds of the model *)

MaxTime == 2          \* updatedAt values are 1..MaxTime
MaxFiles == 2         \* a granule carries no file or MaxFiles files
LoggingInterval == 2  \* granuleMigrationParams.loggingInterval
MaxExecutions == 2    \* executions the database returns for a granule and a workflow
MaxProgress == 2      \* the progress of a PDR is 0..MaxProgress
MaxRetries == 2       \* retries given to waitForGranule are 0..MaxRetries
MaxRuns == 2          \* migrateGranulesAndFiles is invoked at most MaxRuns times
TotalSegments == 2    \* parallelScanSegments of the run
WriteConcurrency == 1 \* writeConcurrency of the run
ScanLimit == 2        \* parallelScanLimit of the run: items per page

Undefined == "undefined"
GranuleIds == {"G1", "G2"}
CollectionIds == {"C1", "Cmissing"}
ExecutionUrls == {"E1"}

\* The collections table of PostgreSQL: name/version -> cumulus_id.  The
\* pipeline never writes it.
pgCollections == [c \in {"C1"} |-> 1]

\* `undefined` for a cumulus id (let executionCumulusId: number | undefined).
NoId == 0

\* A JavaScript value used as a condition: undefined and '' are falsy.
Truthy(x) == x \notin {Undefined, ""}

\* The files a granule record carries: bucket/key pairs owned by the granule.
FileKeys(g, n) == [i \in 1..n |-> <<g, i>>]

\* The records the source table can hold for granule g.
SourceRecords(g) ==
  [granuleId : {g}, collectionId : CollectionIds, updatedAt : 1..MaxTime,
   execution : ExecutionUrls, files : {FileKeys(g, n) : n \in {0, MaxFiles}}]

Range(s) == {s[i] : i \in DOMAIN s}

----------------------------------------------------------------------------
(* common.ts / granulesAndFiles.ts: the migration result *)

initialMigrationResult ==
  [total_dynamo_db_records |-> 0, migrated |-> 0, skipped |-> 0, failed |-> 0,
   filters |-> {}]

initializeGranulesAndFilesMigrationResult ==
  [granulesResult |-> initialMigrationResult,
   filesResult |-> initialMigrationResult]

----------------------------------------------------------------------------
(* migrateGranulesAndFiles / queryAndMigrateGranuleDynamoRecords: the source
   selector *)

DoDynamoQuery(p) == p.granuleId # Undefined \/ p.collectionId # Undefined

\* Mutant: the collectionId is looked at before the granuleId.
FiltersCollectionFirst(p) ==
  IF Truthy(p.collectionId) THEN {<<"collectionId", p.collectionId>>}
  ELSE IF Truthy(p.granuleId) THEN {<<"granuleId", p.granuleId>>}
  ELSE {}

\* The filters descriptor written to granulesResult.
Filters(p) ==
  IF Truthy(p.granuleId) THEN {<<"granuleId", p.granuleId>>}
  ELSE IF Truthy(p.collectionId) THEN {<<"collectionId", p.collectionId>>}
  ELSE {}

\* The parameters added to the query: the key condition and the index.
ExtraQueryParams(p) ==
  IF Truthy(p.granuleId)
    THEN [IndexName |-> Undefined, KeyCondition |-> {<<"granuleId", p.granuleId>>}]
  ELSE IF Truthy(p.collectionId)
    THEN [IndexName |-> "collectionId-granuleId-index",
          KeyCondition |-> {<<"collectionId", p.collectionId>>}]
  ELSE [IndexName |-> Undefined, KeyCondition |-> {}]

\* DynamoDB query(): the items of the table that satisfy the key condition.
Matches(r, cond) ==
  \A c \in cond : IF c[1] = "granuleId" THEN r.granuleId = c[2]
                  ELSE r.collectionId = c[2]

\* A query returns its items in key order.
KeyOrder == <<"G1", "G2">>

QueryItems(table, cond) ==
  LET ids == SelectSeq(KeyOrder, LAMBDA g : Matches(table[g], cond))
  IN [i \in 1..Len(ids) |-> table[ids[i]]]

----------------------------------------------------------------------------
(* migrateGranuleRecord *)

RecordDoesNotExist == "RecordDoesNotExist"
RecordAlreadyMigrated == "RecordAlreadyMigrated"
PostgresUpdateFailed == "PostgresUpdateFailed"
DbError == "DbError"       \* any other error of the destination store
NoError == ""

\* collectionPgModel.getRecordCumulusId
CollectionCumulusId(record) ==
  IF record.collectionId \in DOMAIN pgCollections
    THEN pgCollections[record.collectionId] ELSE NoId

\* executionPgModel.getRecordCumulusId: the id found, or the error thrown.
\* `failure` is the error of the store, if it has one.
ExecutionLookup(record, failure) ==
  IF failure # NoError THEN [id |-> NoId, error |-> failure]
  ELSE IF record.execution \in DOMAIN pgExecutions
    THEN [id |-> pgExecutions[record.execution], error |-> NoError]
  ELSE [id |-> NoId, error |-> RecordDoesNotExist]

\* Mutant: a missing execution is thrown like any other error.
ExecutionErrorThrown(error) == FALSE

\* Lines 90-94: the errors of the execution lookup that are not thrown again.
ExecutionErrorSwallowed(error) == error = RecordDoesNotExist

\* granulePgModel.get: the rows found.
ExistingRecord(rows, record) ==
  {x \in rows : /\ x.granule_id = record.granuleId
                /\ x.collection_cumulus_id = CollectionCumulusId(record)}

\* granulePgModel.get: the rows found, or the error thrown; it throws
\* RecordDoesNotExist when there is no row.  `failure` is the error of the
\* store, if it has one.
ExistingLookup(rows, record, failure) ==
  IF failure # NoError THEN [rows |-> {}, error |-> failure]
  ELSE LET found == ExistingRecord(rows, record)
       IN [rows |-> found,
           error |-> IF found = {} THEN RecordDoesNotExist ELSE NoError]

\* Mutant: the catch of the lookup of the existing record swallows every
\* error.
ExistingErrorAlwaysSwallowed(error) == TRUE

\* Lines 103-107: the errors of the lookup of the existing record that are
\* not thrown again.
ExistingErrorSwallowed(error) == error = RecordDoesNotExist

\* Mutant: the comparison is strict, so an equal timestamp is migrated again.
IsExistingRecordStrictlyNewer(existing, record) ==
  \E x \in existing : x.updated_at > record.updatedAt

IsExistingRecordNewer(existing, record) ==
  \E x \in existing : x.updated_at >= record.updatedAt

\* Mutant: the returned cumulus id is not examined.
UpdateNeverFailed(cumulusId) == FALSE

\* Line 124: the upsert returned no cumulus id.
UpdateFailed(cumulusId) == cumulusId = NoId

\* The cumulus_id the destination generates for a new granule row.
GeneratedCumulusId == [g \in GranuleIds |-> IF g = "G1" THEN 1 ELSE 2]

\* translateApiGranuleToPostgresGranule
TranslateApiGranuleToPostgresGranule(record) ==
  [granule_id |-> record.granuleId,
   collection_cumulus_id |-> CollectionCumulusId(record),
   updated_at |-> record.updatedAt]

\* upsertGranuleWithExecutionJoinRecord: the row (with its execution join
\* records) the upsert leaves for the granule, given the rows it finds.
UpsertedGranule(rows, granule, executionCumulusId) ==
  LET old == {x \in rows : /\ x.granule_id = granule.granule_id
                           /\ x.collection_cumulus_id = granule.collection_cumulus_id}
      id == IF old = {} THEN GeneratedCumulusId[granule.granule_id]
            ELSE (CHOOSE x \in old : TRUE).cumulus_id
      joined == UNION {x.executions : x \in old}
  IN [granule_id |-> granule.granule_id,
      collection_cumulus_id |-> granule.collection_cumulus_id,
      updated_at |-> granule.updated_at,
      cumulus_id |-> id,
      executions |-> IF executionCumulusId = NoId THEN joined
                     ELSE joined \cup {executionCumulusId}]

----------------------------------------------------------------------------
(* migrateFileRecord *)

\* Mutant: the file row does not carry the cumulus id of its granule.
MigratedFileOrphan(file, granuleCumulusId) ==
  [bucket_key |-> file, granule_cumulus_id |-> NoId]

\* Lines 147-162: the row upserted for a file of the granule.
MigratedFile(file, granuleCumulusId) ==
  [bucket_key |-> file, granule_cumulus_id |-> granuleCumulusId]

----------------------------------------------------------------------------
(* knex.transaction *)

\* Mutant: the writes are made outside a transaction, nothing is rolled back.
CommitsAlways(error) == TRUE

\* The transaction commits when its handler returned without an error and
\* rolls back when it threw.
Commits(error) == error = NoError

\* What the tables hold once the writes of a transaction are committed.
CommitGranules(rows, written) ==
  {x \in rows : \A w \in written : ~(/\ w.granule_id = x.granule_id
                                     /\ w.collection_cumulus_id = x.collection_cumulus_id)}
    \cup written

\* Mutant: the file table is rewritten from the writes of the transaction.
CommitFilesOnly(rows, written) == written

CommitFiles(rows, written) ==
  {x \in rows : \A w \in written : w.bucket_key # x.bucket_key} \cup written

----------------------------------------------------------------------------
(* migrateGranuleAndFilesViaTransaction *)

Files(record) == record.files

\* Mutant: the counter is assigned, not increased.
CountOverwriting(res, field, n) == [res EXCEPT ![field] = n]

Count(res, field, n) == [res EXCEPT ![field] = @ + n]

RECURSIVE FileCount(_)
FileCount(records) ==
  IF records = {} THEN 0
  ELSE LET r == CHOOSE x \in records : TRUE
       IN Len(Files(r)) + FileCount(records \ {r})

\* Mutant: the total is logged for every record.
ProgressAlways(total) == TRUE

\* Line 197: the total has reached a multiple of loggingInterval.
ProgressDue(total) == total % LoggingInterval = 0

\* Lines 194-199 for n records in turn: each adds 1 to the total and logs
\* the total when it is due.
RECURSIVE Observed(_, _, _)
Observed(log, total, n) ==
  IF n = 0 THEN log
  ELSE Observed(IF ProgressDue(total + 1) THEN Append(log, total + 1) ELSE log,
                total + 1, n - 1)

\* Lines 194-195, for each of the records handed over.
Received(res, records) ==
  [res EXCEPT
     !.granulesResult = Count(@, "total_dynamo_db_records", Cardinality(records)),
     !.filesResult = Count(@, "total_dynamo_db_records", FileCount(records))]

\* Mutant: RecordAlreadyMigrated is not told apart from the other errors.
OutcomeWithoutSkip(error) ==
  IF error = NoError THEN "migrated" ELSE "failed"

\* Lines 208-217: the counter the try/catch increases.
Outcome(error) ==
  IF error = NoError THEN "migrated"
  ELSE IF error = RecordAlreadyMigrated THEN "skipped"
  ELSE "failed"

\* Mutant: a failure is not counted on the file counters.
SettledGranuleOnly(res, record, outcome) ==
  [res EXCEPT
     !.granulesResult = Count(@, outcome, 1),
     !.filesResult = IF outcome = "failed" THEN @
                     ELSE Count(@, outcome, Len(record.files))]

\* Mutant: a skipped record is taken back from the total.
SettledUncountingSkipped(res, record, outcome) ==
  [res EXCEPT
     !.granulesResult =
        IF outcome = "skipped"
          THEN Count(Count(@, outcome, 1), "total_dynamo_db_records", 0 - 1)
          ELSE Count(@, outcome, 1),
     !.filesResult = Count(@, outcome, Len(record.files))]

\* Mutant: the files are counted migrated whatever the outcome of the record.
SettledFilesMigrated(res, record, outcome) ==
  [res EXCEPT
     !.granulesResult = Count(@, outcome, 1),
     !.filesResult = Count(@, "migrated", Len(record.files))]

Settled(res, record, outcome) ==
  [res EXCEPT
     !.granulesResult = Count(@, outcome, 1),
     !.filesResult = Count(@, outcome, Len(Files(record)))]

\* Lines 215-219: the line written to the error stream.
ErrorLine(record, error) ==
  [granuleId |-> record.granuleId, files |-> record.files, cause |-> error]

\* Mutant: nothing is written to the error stream.
ErrorsNotWritten(log, record, error) == log

\* Mutant: every record that was not migrated is written to the stream.
ErrorsWrittenUnlessMigrated(log, record, error) ==
  IF Outcome(error) = "migrated" THEN log
  ELSE Append(log, ErrorLine(record, error))

ErrorsWritten(log, record, error) ==
  IF Outcome(error) = "failed" THEN Append(log, ErrorLine(record, error))
  ELSE log

\* The invocation for a record: its owner is the query loop (0) or the scan
\* segment whose page holds the record.
NewTask(owner, record) ==
  [owner |-> owner, rec |-> record, pc |-> "lookup",
   executionCumulusId |-> NoId, existing |-> {}, upsert |-> "pending",
   cumulusId |-> NoId, wGranule |-> {}, wFiles |-> {}, error |-> NoError,
   outcome |-> ""]

Replace(t, u) == tasks' = (tasks \ {t}) \cup {u}

\* Mutant: the granule is transcoded and upserted before the conflict
\* detection.
LookupAfterWrite(t) ==
  /\ t.pc = "lookup"
  /\ \E failure, getFailure \in {NoError, DbError} :
       LET execution == ExecutionLookup(t.rec, failure)
           found == ExistingLookup(pgGranules, t.rec, getFailure)
           noCollection == CollectionCumulusId(t.rec) = NoId
           executionThrown == /\ execution.error # NoError
                              /\ ~ExecutionErrorSwallowed(execution.error)
           existingThrown == /\ found.error # NoError
                             /\ ~ExistingErrorSwallowed(found.error)
           error ==
             IF noCollection THEN RecordDoesNotExist
             ELSE IF executionThrown THEN execution.error
             ELSE IF existingThrown THEN found.error
             ELSE IF IsExistingRecordNewer(found.rows, t.rec)
               THEN RecordAlreadyMigrated
             ELSE NoError
           read == error \in {NoError, RecordAlreadyMigrated}
           row == UpsertedGranule(pgGranules,
                    TranslateApiGranuleToPostgresGranule(t.rec), execution.id)
       IN Replace(t, [t EXCEPT
            !.pc = IF error = NoError THEN "upsert" ELSE "settle",
            !.executionCumulusId = IF read THEN execution.id ELSE NoId,
            !.existing = IF read THEN found.rows ELSE {},
            !.upsert = IF error = RecordAlreadyMigrated THEN "written" ELSE @,
            !.wGranule = IF error = RecordAlreadyMigrated THEN {row} ELSE @,
            !.error = error])
  /\ UNCHANGED <<exec, pdr, wait, removal, progress, params, dynamo, pgExecutions, pgGranules, pgFiles, result,
                 errorLog, stream, pc, search, queue, unscanned, segs, runs, handed>>

\* migrateGranuleRecord, lines 69-114: the lookups and the conflict detection.
Lookup(t) ==
  /\ t.pc = "lookup"
  /\ \E failure, getFailure \in {NoError, DbError} :
       LET execution == ExecutionLookup(t.rec, failure)
           found == ExistingLookup(pgGranules, t.rec, getFailure)
           existing == found.rows
           noCollection == CollectionCumulusId(t.rec) = NoId
           executionThrown == /\ execution.error # NoError
                              /\ ~ExecutionErrorSwallowed(execution.error)
           existingThrown == /\ found.error # NoError
                             /\ ~ExistingErrorSwallowed(found.error)
           error ==
             IF noCollection THEN RecordDoesNotExist
             ELSE IF executionThrown THEN execution.error
             ELSE IF existingThrown THEN found.error
             ELSE IF IsExistingRecordNewer(existing, t.rec)
               THEN RecordAlreadyMigrated
             ELSE NoError
           read == error \in {NoError, RecordAlreadyMigrated}
       IN Replace(t, [t EXCEPT
            !.pc = IF error = NoError THEN "upsert" ELSE "settle",
            !.executionCumulusId = IF read THEN execution.id ELSE NoId,
            !.existing = IF read THEN existing ELSE {},
            !.error = error])
  /\ UNCHANGED <<exec, pdr, wait, removal, progress, params, dynamo, pgExecutions, pgGranules, pgFiles, result,
                 errorLog, stream, pc, search, queue, unscanned, segs, runs, handed>>

\* migrateGranuleRecord, lines 116-128: the upsert returns the cumulus id of
\* the row it wrote, or nothing when it affected no row.
Upsert(t) ==
  /\ t.pc = "upsert"
  /\ \E affected \in 0..1 :
       LET row == UpsertedGranule(pgGranules,
                    TranslateApiGranuleToPostgresGranule(t.rec),
                    t.executionCumulusId)
           cumulusId == IF affected = 0 THEN NoId ELSE row.cumulus_id
           failed == UpdateFailed(cumulusId)
       IN Replace(t, [t EXCEPT
            !.pc = IF failed THEN "settle" ELSE "files",
            !.upsert = IF affected = 0 THEN "rejected" ELSE "written",
            !.cumulusId = cumulusId,
            !.wGranule = IF affected = 0 THEN {} ELSE {row},
            !.error = IF failed THEN PostgresUpdateFailed ELSE NoError])
  /\ UNCHANGED <<exec, pdr, wait, removal, progress, params, dynamo, pgExecutions, pgGranules, pgFiles, result,
                 errorLog, stream, pc, search, queue, unscanned, segs, runs, handed>>

\* Lines 204-206: the files are upserted in the transaction of the granule;
\* the upsert of file k + 1 may fail after k files were written.
MigrateFiles(t) ==
  /\ t.pc = "files"
  /\ LET files == Files(t.rec)
     IN \E k \in 0..Len(files) :
          Replace(t, [t EXCEPT
            !.pc = "settle",
            !.wFiles = {MigratedFile(files[i], t.cumulusId) : i \in 1..k},
            !.error = IF k = Len(files) THEN NoError ELSE DbError])
  /\ UNCHANGED <<exec, pdr, wait, removal, progress, params, dynamo, pgExecutions, pgGranules, pgFiles, result,
                 errorLog, stream, pc, search, queue, unscanned, segs, runs, handed>>

\* migrateGranuleDynamoRecords, lines 236-252: pMap starts the mapper for the
\* next item of the page as soon as a mapper has returned.
NextOfPage(owner) ==
  IF owner = 0 \/ segs[owner].page = {} THEN {{}}
  ELSE {{r} : r \in segs[owner].page}

\* Mutant: the invocations share one transaction; the commit of one makes
\* the writes of all of them visible.
WrittenByAll(t) ==
  [granules |-> UNION {u.wGranule : u \in {x \in tasks : x.pc # "done"}},
   files |-> UNION {u.wFiles : u \in {x \in tasks : x.pc # "done"}}]

\* Lines 202-207: the writes made on the trx of the invocation, those of
\* migrateGranuleRecord and of migrateFileRecord for its own record.
Written(t) == [granules |-> t.wGranule, files |-> t.wFiles]

\* Lines 202-222: the transaction is committed or rolled back and the
\* try/catch counts the outcome.
Settle(t) ==
  /\ t.pc = "settle"
  /\ \E next \in NextOfPage(t.owner) :
       /\ tasks' = (tasks \ {t})
                     \cup {[t EXCEPT !.pc = "done", !.outcome = Outcome(t.error)]}
                     \cup {NewTask(t.owner, r) : r \in next}
       /\ result' = Received(Settled(result, t.rec, Outcome(t.error)), next)
       /\ handed' = handed \cup next
       /\ progress' = Observed(progress,
                               result.granulesResult.total_dynamo_db_records,
                               Cardinality(next))
       /\ segs' = IF next = {} THEN segs
                  ELSE [segs EXCEPT ![t.owner].page = @ \ next]
  /\ IF Commits(t.error)
       THEN /\ pgGranules' = CommitGranules(pgGranules, Written(t).granules)
            /\ pgFiles' = CommitFiles(pgFiles, Written(t).files)
       ELSE UNCHANGED <<pgGranules, pgFiles>>
  /\ errorLog' = ErrorsWritten(errorLog, t.rec, t.error)
  /\ UNCHANGED <<exec, pdr, wait, removal, params, dynamo, pgExecutions, stream, pc, search, queue,
                 unscanned, runs>>

----------------------------------------------------------------------------
(* migrateGranulesAndFiles *)

NoSearch == [type |-> "none", IndexName |-> Undefined, KeyCondition |-> {}]

Segments == 1..TotalSegments

OwnedBy(owner) == {t \in tasks : t.owner = owner}

Active(owner) == {t \in OwnedBy(owner) : t.pc # "done"}

\* Lines 376-422: the result and the error streams are created and the
\* strategy is chosen.  A query without a key condition is rejected by
\* DynamoDB and the rejection leaves migrateGranulesAndFiles as an error.
Start ==
  /\ pc = "idle"
  /\ runs < MaxRuns
  /\ runs' = runs + 1
  /\ stream' = "open"
  /\ errorLog' = <<>>
  /\ tasks' = {}
  /\ handed' = {}
  /\ progress' = <<>>
  /\ IF DoDynamoQuery(params)
       THEN LET extra == ExtraQueryParams(params)
            IN /\ result' = [initializeGranulesAndFilesMigrationResult EXCEPT
                    !.granulesResult.filters = Filters(params)]
               /\ search' = [type |-> "query", IndexName |-> extra.IndexName,
                             KeyCondition |-> extra.KeyCondition]
               /\ IF extra.KeyCondition = {}
                    THEN queue' = <<>> /\ pc' = "thrown"
                    ELSE /\ queue' = QueryItems(dynamo, extra.KeyCondition)
                         /\ pc' = "query"
               /\ UNCHANGED <<unscanned, segs>>
       ELSE /\ result' = initializeGranulesAndFilesMigrationResult
            /\ search' = [NoSearch EXCEPT !.type = "scan"]
            /\ unscanned' = Range(dynamo)
            /\ segs' = [s \in Segments |-> [pc |-> "scanning", page |-> {}]]
            /\ pc' = "scan"
            /\ queue' = <<>>
  /\ UNCHANGED <<exec, pdr, wait, removal, params, dynamo, pgExecutions, pgGranules, pgFiles>>

\* Mutant: the records of the queue are migrated together, as the items of
\* a page are.
QueryMigrateAll ==
  /\ pc = "query"
  /\ tasks = {}
  /\ queue # <<>>
  /\ result' = Received(result, Range(queue))
  /\ tasks' = {NewTask(0, r) : r \in Range(queue)}
  /\ handed' = handed \cup Range(queue)
  /\ progress' = Observed(progress,
                          result.granulesResult.total_dynamo_db_records,
                          Len(queue))
  /\ UNCHANGED <<exec, pdr, wait, removal, params, dynamo, pgExecutions, pgGranules, pgFiles, errorLog,
                 stream, pc, search, queue, unscanned, segs, runs>>

\* queryAndMigrateGranuleDynamoRecords, lines 330-340: the record peeked
\* from the queue is handed to migrateGranuleAndFilesViaTransaction.
QueryMigrate ==
  /\ pc = "query"
  /\ tasks = {}
  /\ queue # <<>>
  /\ result' = Received(result, {Head(queue)})
  /\ tasks' = {NewTask(0, Head(queue))}
  /\ handed' = handed \cup {Head(queue)}
  /\ progress' = Observed(progress,
                          result.granulesResult.total_dynamo_db_records, 1)
  /\ UNCHANGED <<exec, pdr, wait, removal, params, dynamo, pgExecutions, pgGranules, pgFiles, errorLog,
                 stream, pc, search, queue, unscanned, segs, runs>>

\* Mutant: the error of a failed record leaves the loop.
QueryShiftRethrowing ==
  /\ pc = "query"
  /\ tasks # {}
  /\ \A t \in tasks : t.pc = "done"
  /\ IF \E t \in tasks : t.outcome = "failed"
       THEN pc' = "thrown" /\ UNCHANGED <<tasks, queue>>
       ELSE tasks' = {} /\ queue' = Tail(queue) /\ pc' = pc
  /\ UNCHANGED <<exec, pdr, wait, removal, progress, params, dynamo, pgExecutions, pgGranules, pgFiles, result,
                 errorLog, stream, search, unscanned, segs, runs, handed>>

\* Mutant: a failed record stays at the head of the queue and is migrated
\* again.
QueryShiftRetrying ==
  /\ pc = "query"
  /\ tasks # {}
  /\ \A t \in tasks : t.pc = "done"
  /\ tasks' = {}
  /\ queue' = IF \E t \in tasks : t.outcome = "failed" THEN queue ELSE Tail(queue)
  /\ UNCHANGED <<exec, pdr, wait, removal, progress, params, dynamo, pgExecutions, pgGranules, pgFiles, result,
                 errorLog, stream, pc, search, unscanned, segs, runs, handed>>

\* Mutant: the queue is not shifted, the loop stays on the record it has
\* migrated.
QueryShiftStaying ==
  /\ pc = "query"
  /\ tasks # {}
  /\ \A t \in tasks : t.pc = "done"
  /\ UNCHANGED vars

\* Lines 341-345: the migration of the record has returned; shift.
QueryShift ==
  /\ pc = "query"
  /\ tasks # {}
  /\ \A t \in tasks : t.pc = "done"
  /\ tasks' = {}
  /\ queue' = Tail(queue)
  /\ UNCHANGED <<exec, pdr, wait, removal, progress, params, dynamo, pgExecutions, pgGranules, pgFiles, result,
                 errorLog, stream, pc, search, unscanned, segs, runs, handed>>

\* Lines 333 and 349: the queue is exhausted.
QueryEnd ==
  /\ pc = "query"
  /\ tasks = {}
  /\ queue = <<>>
  /\ pc' = "close"
  /\ UNCHANGED <<exec, pdr, wait, removal, progress, params, dynamo, pgExecutions, pgGranules, pgFiles, result,
                 errorLog, stream, search, queue, unscanned, segs, tasks, runs, handed>>

\* Mutant: pMap is called without its concurrency option.
Unbounded(n) == n

\* Lines 249-251: the number of mappers pMap starts at once for n items.
Concurrency(n) == IF n < WriteConcurrency THEN n ELSE WriteConcurrency

\* Mutant: only the items started at once are mapped.
NonePending(items, started) == {}

\* Lines 236-252: the items of the page whose mapper pMap has yet to start.
Pending(items, started) == items \ started

\* Mutant: migrateGranuleDynamoRecords returns without awaiting its mappers.
PageDispatched(s) == segs[s].page = {}

\* Lines 235-253: migrateGranuleDynamoRecords has returned for the page of
\* the segment: pMap has started every item and every mapper has returned.
PageReturned(s) == segs[s].page = {} /\ Active(s) = {}

\* parallelScan and migrateGranuleDynamoRecords: once processItemsFunc has
\* returned for its page, a segment reads its next page, at most ScanLimit
\* items that no segment has returned yet, and pMap starts the mappers of
\* the first writeConcurrency items.
ScanPage(s) ==
  /\ pc = "scan"
  /\ segs[s].pc = "scanning"
  /\ PageReturned(s)
  /\ \E items \in SUBSET unscanned :
       /\ items # {}
       /\ Cardinality(items) <= ScanLimit
       /\ \E started \in SUBSET items :
            /\ Cardinality(started) = Concurrency(Cardinality(items))
            /\ segs' = [segs EXCEPT ![s].page = Pending(items, started)]
            /\ tasks' = (tasks \ OwnedBy(s)) \cup {NewTask(s, r) : r \in started}
            /\ result' = Received(result, started)
            /\ handed' = handed \cup started
            /\ progress' = Observed(progress,
                                    result.granulesResult.total_dynamo_db_records,
                                    Cardinality(started))
       /\ unscanned' = unscanned \ items
  /\ UNCHANGED <<exec, pdr, wait, removal, params, dynamo, pgExecutions, pgGranules, pgFiles, errorLog,
                 stream, pc, search, queue, runs>>

\* Mutant: the failure of one segment ends the scan of every segment.
ScanFailAll(s) ==
  /\ pc = "scan"
  /\ segs[s].pc = "scanning"
  /\ PageReturned(s)
  /\ segs' = [x \in Segments |-> [segs[x] EXCEPT !.pc = "failed"]]
  /\ UNCHANGED <<exec, pdr, wait, removal, progress, params, dynamo, pgExecutions, pgGranules, pgFiles, result,
                 errorLog, stream, pc, search, queue, unscanned, tasks, runs,
                 handed>>

\* parallelScan: the read of the next page of a segment fails (the source
\* store is unreachable) and the segment ends.  The items left in its part
\* of the table, any of those no segment has returned, are then never read.
ScanFail(s) ==
  /\ pc = "scan"
  /\ segs[s].pc = "scanning"
  /\ PageReturned(s)
  /\ segs' = [segs EXCEPT ![s].pc = "failed"]
  /\ UNCHANGED <<exec, pdr, wait, removal, progress, params, dynamo, pgExecutions, pgGranules, pgFiles, result,
                 errorLog, stream, pc, search, queue, unscanned, tasks, runs,
                 handed>>

FailedSegments == {s \in Segments : segs[s].pc = "failed"}

\* parallelScan: every segment has ended, by reading its last page or by a
\* failed read, and processItemsFunc has returned for its last page.  The
\* items no segment has returned are in the parts of the failed segments.
AllSegmentsEnded ==
  /\ unscanned = {} \/ FailedSegments # {}
  /\ \A s \in Segments : PageReturned(s)

\* Lines 408-424: parallelScan has resolved, or it has rejected and the
\* rejection leaves migrateGranulesAndFiles at line 408.
ScanEnd ==
  /\ pc = "scan"
  /\ AllSegmentsEnded
  /\ pc' = IF FailedSegments = {} THEN "close" ELSE "thrown"
  /\ UNCHANGED <<exec, pdr, wait, removal, progress, params, dynamo, pgExecutions, pgGranules, pgFiles, result,
                 errorLog, stream, search, queue, unscanned, segs, tasks, runs,
                 handed>>

\* Line 425: closeErrorWriteStreams.
CloseErrorWriteStreams ==
  /\ pc = "close"
  /\ stream' = "closed"
  /\ pc' = "store"
  /\ UNCHANGED <<exec, pdr, wait, removal, progress, params, dynamo, pgExecutions, pgGranules, pgFiles, result,
                 errorLog, search, queue, unscanned, segs, tasks, runs, handed>>

\* Lines 426-435: storeErrors.
StoreErrors ==
  /\ pc = "store"
  /\ stream' = "stored"
  /\ pc' = "done"
  /\ UNCHANGED <<exec, pdr, wait, removal, progress, params, dynamo, pgExecutions, pgGranules, pgFiles, result,
                 errorLog, search, queue, unscanned, segs, tasks, runs, handed>>

\* Line 436: the result is returned (or the error thrown) to the caller and
\* the invocation is over.
Return ==
  /\ pc \in {"done", "thrown"}
  /\ pc' = "idle"
  /\ result' = initializeGranulesAndFilesMigrationResult
  /\ errorLog' = <<>>
  /\ stream' = "none"
  /\ search' = NoSearch
  /\ queue' = <<>>
  /\ tasks' = {}
  /\ handed' = {}
  /\ unscanned' = {}
  /\ segs' = [s \in Segments |-> [pc |-> "scanning", page |-> {}]]
  /\ progress' = <<>>
  /\ UNCHANGED <<exec, pdr, wait, removal, params, dynamo, pgExecutions, pgGranules, pgFiles, runs>>

\* The granules that are written again while the migration goes on.
Rewritten == {"G1"}

\* The source table is live: between two runs a granule is written again,
\* with another updatedAt.
SourceWrite(g) ==
  /\ pc = "idle"
  /\ 0 < runs /\ runs < MaxRuns
  /\ \E u \in 1..MaxTime :
       /\ u # dynamo[g].updatedAt
       /\ dynamo' = [dynamo EXCEPT ![g].updatedAt = u]
  /\ UNCHANGED <<exec, pdr, wait, removal, progress, params, pgExecutions, pgGranules, pgFiles, result, errorLog,
                 stream, pc, search, queue, unscanned, segs, tasks, runs, handed>>

----------------------------------------------------------------------------

(* chooseTargetExecution (packages/api/lib/executions.js) *)

ExecutionArns == {"arn1", "arn2"}

WorkflowNames == {"w1"}

TypeError == "TypeError"

\* The lists of rows executionArnsFromGranuleIdsAndWorkflowNames resolves
\* with, the most recent execution first.
ExecutionLists ==
  UNION {[1..n -> [arn : ExecutionArns]] : n \in 0..MaxExecutions}

NoCall ==
  [pc |-> "none", granuleId |-> Undefined, executionArn |-> Undefined,
   workflowName |-> Undefined, db |-> <<>>, executions |-> <<>>,
   queries |-> <<>>, value |-> Undefined, error |-> NoError]

\* The calls of chooseTargetExecution: its arguments, and what the database
\* holds for the granule and the workflow.
Calls ==
  {[NoCall EXCEPT !.pc = "called", !.granuleId = g, !.executionArn = a,
                  !.workflowName = w, !.db = d] :
     g \in GranuleIds, a \in {Undefined, ""} \cup ExecutionArns,
     w \in {Undefined, ""} \cup WorkflowNames, d \in ExecutionLists}

\* Mutant: an empty executionArn counts as none.
ExecutionArnTruthy(executionArn) == executionArn \notin {Undefined, ""}

\* Line 30: executionArn !== undefined.
ExecutionArnGiven(executionArn) == executionArn # Undefined

\* Mutant: the database is searched also without a workflowName.
WorkflowNameNeverMissing(workflowName) == FALSE

\* Line 32: workflowName === undefined.
WorkflowNameMissing(workflowName) == workflowName = Undefined

\* Line 30: return executionArn.
ReturnExecutionArn ==
  /\ exec.pc = "called"
  /\ ExecutionArnGiven(exec.executionArn)
  /\ exec' = [exec EXCEPT !.pc = "returned", !.value = exec.executionArn]
  /\ UNCHANGED <<migration, pdr, wait, removal>>

\* Line 32: return undefined.
ReturnUndefined ==
  /\ exec.pc = "called"
  /\ ~ExecutionArnGiven(exec.executionArn)
  /\ WorkflowNameMissing(exec.workflowName)
  /\ exec' = [exec EXCEPT !.pc = "returned", !.value = Undefined]
  /\ UNCHANGED <<migration, pdr, wait, removal>>

\* Lines 34-39: the database is searched for the executions of the granule
\* and the workflow.
SearchExecutions ==
  /\ exec.pc = "called"
  /\ ~ExecutionArnGiven(exec.executionArn)
  /\ ~WorkflowNameMissing(exec.workflowName)
  /\ exec' = [exec EXCEPT
                !.pc = "found",
                !.queries = Append(@, [granuleIds |-> <<exec.granuleId>>,
                                       workflowNames |-> <<exec.workflowName>>]),
                !.executions = exec.db]
  /\ UNCHANGED <<migration, pdr, wait, removal>>

\* Line 40: return executions[0].arn; reading arn of executions[0] throws a
\* TypeError when the list is empty.
ReturnFirstArn ==
  /\ exec.pc = "found"
  /\ exec' = IF exec.executions = <<>>
               THEN [exec EXCEPT !.pc = "thrown", !.error = TypeError]
               ELSE [exec EXCEPT !.pc = "returned",
                                 !.value = exec.executions[1].arn]
  /\ UNCHANGED <<migration, pdr, wait, removal>>

----------------------------------------------------------------------------

(* Pdr.storePdrFromCumulusMessage (packages/api/lib/executions.js) *)

\* No record: the item is not in the table, or the message carries no PDR.
None == [createdAt |-> 0, execution |-> "", progress |-> 0, status |-> "none"]

PdrExecutions == {"x1", "x2"}

PdrStatuses == {"running", "completed"}

\* generatePdrRecord: the fields of the record the condition and the update
\* read.  createdAt is the workflow start time of the message.
PdrRecords ==
  [createdAt : 1..MaxTime, execution : PdrExecutions,
   progress : 0..MaxProgress, status : PdrStatuses]

\* The messages delivered: with a PDR, or without one (generatePdrRecord
\* returns undefined).
PdrMessages == PdrRecords \cup {None}

ConditionalCheckFailedException == "ConditionalCheckFailedException"

NoPdrCall ==
  [item |-> None, before |-> None, message |-> None, result |-> "none",
   error |-> NoError]

\* Mutant: the createdAt of the stored record is not compared.
CreatedAtUnchecked(item, record) == TRUE

\* Line 184: (attribute_not_exists(createdAt) or :createdAt >= #createdAt).
CreatedAtCondition(item, record) ==
  item = None \/ record.createdAt >= item.createdAt

\* Mutant: the condition on execution and progress is never added.
RunningNever(record) == FALSE

\* Line 185: pdrRecord.status === 'running'.
RunningStatus(record) == record.status = "running"

\* Line 186: (execution <> :execution OR progress < :progress); an item
\* that does not exist has no execution to be equal to.
ExecutionOrProgressCondition(item, record) ==
  \/ item = None
  \/ item.execution # record.execution
  \/ item.progress < record.progress

\* Lines 184-187: the ConditionExpression of the update.
ConditionExpression(item, record) ==
  /\ CreatedAtCondition(item, record)
  /\ RunningStatus(record) => ExecutionOrProgressCondition(item, record)

\* Line 193: error.name.includes('ConditionalCheckFailedException').
IsConditionalCheckFailed(error) == error = ConditionalCheckFailedException

\* dynamodbDocClient.update: the error of the update, if it has one.
\* `failure` is the error of the store itself.
UpdateError(item, record, failure) ==
  IF failure # NoError THEN failure
  ELSE IF ConditionExpression(item, record) THEN NoError
  ELSE ConditionalCheckFailedException

\* Lines 173-200: storePdrFromCumulusMessage for one delivered message.
StorePdrFromCumulusMessage(message, failure) ==
  /\ pdr' =
       IF message = None
         THEN [item |-> pdr.item, before |-> pdr.item, message |-> message,
               result |-> "undefined", error |-> NoError]
       ELSE LET error == UpdateError(pdr.item, message, failure)
            IN [item |-> IF error = NoError THEN message ELSE pdr.item,
                before |-> pdr.item,
                message |-> message,
                result |-> IF error = NoError THEN "written"
                           ELSE IF IsConditionalCheckFailed(error)
                             THEN "undefined"
                           ELSE "thrown",
                error |-> error]
  /\ UNCHANGED <<migration, exec, wait, removal>>

----------------------------------------------------------------------------

(* api-client granules: waitForGranule, removePublishedGranule *)

\* An optional numeric parameter: {} when it is not given, {n} when it is n.
OptionalRetries == {{}} \cup {{n} : n \in 0..MaxRetries}

\* Line 94: retries = 10.
DefaultRetries == 10

\* What the callback resolves with: the status code of the API and, in the
\* body, the status of the granule.
ApiStatusCodes == {200, 404, 500}

GranuleStatuses == {"completed", "running"}

NoAnswer == [statusCode |-> 0, status |-> ""]

ApiAnswers == [statusCode : ApiStatusCodes, status : GranuleStatuses]

NoWait ==
  [pc |-> "none", status |-> Undefined, retries |-> {}, optionRetries |-> {},
   attempts |-> 0, answer |-> NoAnswer]

\* The calls of waitForGranule: the status asked for, retries and
\* pRetryOptions.retries.
Waits ==
  {[NoWait EXCEPT !.pc = "polling", !.status = st, !.retries = r,
                  !.optionRetries = o] :
     st \in {Undefined, "completed"}, r \in OptionalRetries,
     o \in OptionalRetries}

\* Mutant: pRetryOptions is spread before retries, which then prevails.
RetriesParameter(w) ==
  IF w.retries # {} THEN CHOOSE n \in w.retries : TRUE ELSE DefaultRetries

\* Lines 94 and 121-127: the retries pRetry is given; the properties of
\* pRetryOptions are spread after retries and prevail.
RetriesInEffect(w) ==
  IF w.optionRetries # {} THEN CHOOSE n \in w.optionRetries : TRUE
  ELSE IF w.retries # {} THEN CHOOSE n \in w.retries : TRUE
  ELSE DefaultRetries

\* Lines 103-105: pRetry.AbortError.
Aborts(answer) == answer.statusCode = 500

\* Lines 107-117: the errors pRetry retries.
Retried(w, answer) ==
  \/ answer.statusCode # 200
  \/ Truthy(w.status) /\ w.status # answer.status

\* Lines 99-128: one attempt of pRetry.  pRetry rejects at once on an
\* AbortError, runs the function again after another error while attempts
\* are left, and rejects with the last error when none is left.
Poll ==
  /\ wait.pc = "polling"
  /\ \E answer \in ApiAnswers :
       wait' = [wait EXCEPT
                  !.attempts = @ + 1,
                  !.answer = answer,
                  !.pc = IF Aborts(answer) THEN "aborted"
                         ELSE IF ~Retried(wait, answer) THEN "resolved"
                         ELSE IF wait.attempts + 1 > RetriesInEffect(wait)
                           THEN "rejected"
                         ELSE "polling"]
  /\ UNCHANGED <<migration, exec, pdr, removal>>

\* What the callback does with a request: it resolves with a status code
\* or rejects.
Rejects == 0

CallbackOutcomes == {200, 400, 500, Rejects}

NoRemoval ==
  [pc |-> "none", granuleId |-> Undefined, requests |-> <<>>,
   removeFromCmr |-> Rejects, delete |-> Rejects]

Removals == {[NoRemoval EXCEPT !.pc = "called", !.granuleId = g] : g \in GranuleIds}

\* Line 340: await removeFromCMR(...) lets the function go on when the
\* callback resolved, whatever the status code of the answer.
Proceeds(outcome) == outcome # Rejects

\* Line 340: PUT /granules/{granuleId} with action removeFromCmr.
RemoveFromCMR ==
  /\ removal.pc = "called"
  /\ \E outcome \in CallbackOutcomes :
       removal' = [removal EXCEPT
                     !.requests = Append(@, [httpMethod |-> "PUT",
                                             action |-> "removeFromCmr",
                                             granuleId |-> removal.granuleId]),
                     !.removeFromCmr = outcome,
                     !.pc = IF Proceeds(outcome) THEN "removed" ELSE "thrown"]
  /\ UNCHANGED <<migration, exec, pdr, wait>>

\* Line 341: DELETE /granules/{granuleId}.
DeleteGranule ==
  /\ removal.pc = "removed"
  /\ \E outcome \in CallbackOutcomes :
       removal' = [removal EXCEPT
                     !.requests = Append(@, [httpMethod |-> "DELETE",
                                             action |-> "",
                                             granuleId |-> removal.granuleId]),
                     !.delete = outcome,
                     !.pc = IF outcome = Rejects THEN "thrown" ELSE "returned"]
  /\ UNCHANGED <<migration, exec, pdr, wait>>

----------------------------------------------------------------------------

ParamValues ==
  [granuleId : {Undefined, "", "G1"}, collectionId : {Undefined, "", "C1"}]

\* The source tables a behaviour starts from: G1 is any record, G2 a record
\* of an existing collection with its files; updatedAt changes by SourceWrite.
SourceTables ==
  {d \in [GranuleIds -> UNION {SourceRecords(g) : g \in GranuleIds}] :
     /\ \A g \in GranuleIds : d[g].granuleId = g /\ d[g].updatedAt = 1
     /\ d["G2"].collectionId = "C1"
     /\ Len(d["G2"].files) = MaxFiles}

Init ==
  /\ params \in ParamValues
  /\ dynamo \in SourceTables
  /\ pgExecutions \in {[e \in X |-> 1] : X \in SUBSET ExecutionUrls}
  /\ pgGranules = {}
  /\ pgFiles = {}
  /\ result = initializeGranulesAndFilesMigrationResult
  /\ errorLog = <<>>
  /\ stream = "none"
  /\ pc = "idle"
  /\ search = NoSearch
  /\ queue = <<>>
  /\ unscanned = {}
  /\ segs = [s \in Segments |-> [pc |-> "scanning", page |-> {}]]
  /\ tasks = {}
  /\ runs = 0
  /\ handed = {}
  /\ progress = <<>>
  /\ exec = NoCall
  /\ pdr = NoPdrCall
  /\ wait = NoWait
  /\ removal = NoRemoval

Next ==
  \/ Start
  \/ QueryMigrate
  \/ QueryShift
  \/ QueryEnd
  \/ \E s \in Segments : ScanPage(s)
  \/ \E s \in Segments : ScanFail(s)
  \/ ScanEnd
  \/ CloseErrorWriteStreams
  \/ StoreErrors
  \/ Return
  \/ \E t \in tasks : Lookup(t)
  \/ \E t \in tasks : Upsert(t)
  \/ \E t \in tasks : MigrateFiles(t)
  \/ \E t \in tasks : Settle(t)
  \/ \E g \in Rewritten : SourceWrite(g)

Spec == Init /\ [][Next]_vars

\* migrateGranulesAndFiles is not called.
MigrationIdle ==
  /\ params = [granuleId |-> Undefined, collectionId |-> Undefined]
  /\ dynamo = CHOOSE d \in SourceTables : TRUE
  /\ pgExecutions = [e \in {} |-> 1]
  /\ pgGranules = {}
  /\ pgFiles = {}
  /\ result = initializeGranulesAndFilesMigrationResult
  /\ errorLog = <<>>
  /\ stream = "none"
  /\ pc = "idle"
  /\ search = NoSearch
  /\ queue = <<>>
  /\ unscanned = {}
  /\ segs = [s \in Segments |-> [pc |-> "scanning", page |-> {}]]
  /\ tasks = {}
  /\ runs = 0
  /\ handed = {}
  /\ progress = <<>>

\* chooseTargetExecution, called with any arguments against any database.
ExecInit ==
  /\ MigrationIdle
  /\ exec \in Calls
  /\ pdr = NoPdrCall
  /\ wait = NoWait
  /\ removal = NoRemoval

ExecNext ==
  \/ ReturnExecutionArn
  \/ ReturnUndefined
  \/ SearchExecutions
  \/ ReturnFirstArn

ExecSpec == ExecInit /\ [][ExecNext]_vars

\* The source table is live during a scan as well: a record a segment has
\* already returned is written again, with a later updatedAt, and the write
\* shifts the scan so that the record is returned once more.
LiveWrite(g) ==
  /\ pc = "scan"
  /\ dynamo[g] \in handed
  /\ dynamo[g].updatedAt < MaxTime
  /\ dynamo' = [dynamo EXCEPT ![g].updatedAt = @ + 1]
  /\ unscanned' = unscanned \cup {dynamo'[g]}
  /\ UNCHANGED <<exec, pdr, wait, removal, progress, params, pgExecutions, pgGranules, pgFiles, result, errorLog,
                 stream, pc, search, queue, segs, tasks, runs, handed>>

\* A parallel scan of a table that is written while it is scanned.
RaceInit ==
  /\ Init
  /\ ~DoDynamoQuery(params)

RaceNext ==
  \/ Start
  \/ \E s \in Segments : ScanPage(s)
  \/ ScanEnd
  \/ CloseErrorWriteStreams
  \/ StoreErrors
  \/ \E t \in tasks : Lookup(t)
  \/ \E t \in tasks : Upsert(t)
  \/ \E t \in tasks : MigrateFiles(t)
  \/ \E t \in tasks : Settle(t)
  \/ \E g \in Rewritten : LiveWrite(g)

RaceSpec == RaceInit /\ [][RaceNext]_vars

\* One invocation of migrateGranulesAndFiles, from the call to the return
\* of the result or the throw of the error.  Every step of it is the return
\* or the failure of a store operation the code awaits, or the code that
\* follows it, so a step that stays possible is taken in the end.
RunNext ==
  \/ Start
  \/ QueryMigrate
  \/ QueryShift
  \/ QueryEnd
  \/ \E s \in Segments : ScanPage(s)
  \/ \E s \in Segments : ScanFail(s)
  \/ ScanEnd
  \/ CloseErrorWriteStreams
  \/ StoreErrors
  \/ \E t \in tasks : Lookup(t)
  \/ \E t \in tasks : Upsert(t)
  \/ \E t \in tasks : MigrateFiles(t)
  \/ \E t \in tasks : Settle(t)

FairSpec == Init /\ [][RunNext]_vars /\ WF_vars(RunNext)

\* Messages for one PDR, delivered in any order to
\* storePdrFromCumulusMessage.
PdrInit ==
  /\ MigrationIdle
  /\ exec = NoCall
  /\ pdr = NoPdrCall
  /\ wait = NoWait
  /\ removal = NoRemoval

PdrNext ==
  \E message \in PdrMessages : \E failure \in {NoError, DbError} :
    StorePdrFromCumulusMessage(message, failure)

PdrSpec == PdrInit /\ [][PdrNext]_vars

\* A client of the API that calls waitForGranule and
\* removePublishedGranule, with any arguments and any answers of the API.
ApiInit ==
  /\ MigrationIdle
  /\ exec = NoCall
  /\ pdr = NoPdrCall
  /\ wait \in Waits
  /\ removal \in Removals

ApiNext ==
  \/ Poll
  \/ RemoveFromCMR
  \/ DeleteGranule

ApiSpec == ApiInit /\ [][ApiNext]_vars

----------------------------------------------------------------------------
(* Properties *)

\* The invocation t, which is about to settle, has returned in this step.
Returns(t) ==
  /\ t.pc = "settle"
  /\ \E u \in tasks' : u.owner = t.owner /\ u.rec = t.rec /\ u.pc = "done"

\* The destination rows of the granule of a record.
RowsOf(rows, record) ==
  {x \in rows : x.granule_id = record.granuleId}

UpdatedAtOf(rows) == (CHOOSE x \in rows : TRUE).updated_at

Logged(record) ==
  \E i \in DOMAIN errorLog :
    errorLog[i].granuleId = record.granuleId /\ errorLog[i].files = record.files

OutcomeCounters(res) == <<res.migrated, res.skipped, res.failed>>

\* C1 (newer wins).  For an invocation that found a destination row with
\* updated_at = T: if the record's updatedAt <= T it is counted skipped and
\* the row is left as it was; if updatedAt > T it is never counted skipped,
\* and when its transaction succeeds it is counted migrated and the row's
\* updated_at is the record's updatedAt.  No step replaces a destination row
\* by one whose updated_at is not strictly greater.
C1_State ==
  \A t \in tasks :
    (t.pc = "done" /\ t.existing # {}) =>
      /\ t.rec.updatedAt <= UpdatedAtOf(t.existing) =>
           /\ t.outcome = "skipped"
           /\ RowsOf(pgGranules, t.rec) = t.existing
      /\ t.rec.updatedAt > UpdatedAtOf(t.existing) =>
           /\ t.outcome # "skipped"
           /\ t.error = NoError =>
                /\ t.outcome = "migrated"
                /\ RowsOf(pgGranules, t.rec) # {}
                /\ UpdatedAtOf(RowsOf(pgGranules, t.rec)) = t.rec.updatedAt
           /\ t.error # NoError => RowsOf(pgGranules, t.rec) = t.existing

C1_Step ==
  /\ \A x \in pgGranules : \A y \in pgGranules' :
       (/\ y.granule_id = x.granule_id
        /\ y.collection_cumulus_id = x.collection_cumulus_id
        /\ y # x) => y.updated_at > x.updated_at
  /\ \A t \in tasks :
       (Returns(t) /\ t.existing # {}) =>
         IF t.rec.updatedAt <= UpdatedAtOf(t.existing)
           THEN /\ result'.granulesResult.skipped = result.granulesResult.skipped + 1
                /\ pgGranules' = pgGranules
           ELSE /\ result'.granulesResult.skipped = result.granulesResult.skipped
                /\ t.error = NoError =>
                     result'.granulesResult.migrated = result.granulesResult.migrated + 1

C1_NewerWins == []C1_State /\ [][C1_Step]_vars

\* C1 witness: in one run a record newer than its destination row has been
\* migrated over it, and the destination now carries the record's updatedAt.
C1_Witness ==
  \E t \in tasks :
    /\ t.pc = "done" /\ t.existing # {}
    /\ t.rec.updatedAt > UpdatedAtOf(t.existing)
    /\ t.outcome = "migrated"
    /\ UpdatedAtOf(RowsOf(pgGranules, t.rec)) = t.rec.updatedAt

\* The destination holds what migrating the record leaves: its granule row
\* with the record's updatedAt and a file row for each of its files.
HoldsMigrated(rows, files, record) ==
  \E x \in rows :
    /\ x.granule_id = record.granuleId
    /\ x.updated_at = record.updatedAt
    /\ \A i \in DOMAIN record.files :
         [bucket_key |-> record.files[i], granule_cumulus_id |-> x.cumulus_id]
           \in files

\* C2 (idempotence).  A record that is absent from the destination and whose
\* transaction succeeds is counted migrated, and the destination then holds
\* its granule row and file rows; migrating the same record again, with the
\* destination holding that row, is counted skipped and changes neither the
\* granule rows nor the file rows.
C2_State ==
  \A t \in tasks :
    /\ (t.pc = "done" /\ t.existing = {} /\ t.error = NoError) =>
         t.outcome = "migrated" /\ HoldsMigrated(pgGranules, pgFiles, t.rec)
    /\ (t.pc = "done" /\ t.existing # {}
          /\ UpdatedAtOf(t.existing) = t.rec.updatedAt) =>
         /\ t.outcome = "skipped"
         /\ t.wGranule = {} /\ t.wFiles = {}
         /\ HoldsMigrated(pgGranules, pgFiles, t.rec)

C2_Step ==
  \A t \in tasks :
    (Returns(t) /\ t.existing # {}
       /\ UpdatedAtOf(t.existing) = t.rec.updatedAt) =>
      /\ pgGranules' = pgGranules /\ pgFiles' = pgFiles
      /\ OutcomeCounters(result'.granulesResult)
           = <<result.granulesResult.migrated,
               result.granulesResult.skipped + 1,
               result.granulesResult.failed>>

C2_Idempotence == []C2_State /\ [][C2_Step]_vars

\* C2 witness: the second run has skipped a record that the first run
\* migrated and that was not written in between.
C2_Witness ==
  /\ runs = 2
  /\ \E t \in tasks :
       /\ t.pc = "done" /\ t.outcome = "skipped"
       /\ t.existing # {} /\ UpdatedAtOf(t.existing) = t.rec.updatedAt
       /\ HoldsMigrated(pgGranules, pgFiles, t.rec)

\* C3 (atomicity).  The granule rows and file rows of the destination change
\* only when a transaction that ran without error commits, and then the
\* granule row and all file rows of its record are there together; when an
\* invocation returns after an error, whatever it had written in its
\* transaction, the destination tables are as before.  In every state each
\* file row belongs to a granule row and each granule row has all the file
\* rows of its record.
C3_State ==
  /\ \A f \in pgFiles : \E x \in pgGranules : x.cumulus_id = f.granule_cumulus_id
  /\ \A x \in pgGranules :
       \A i \in DOMAIN dynamo[x.granule_id].files :
         [bucket_key |-> dynamo[x.granule_id].files[i],
          granule_cumulus_id |-> x.cumulus_id] \in pgFiles

C3_Step ==
  /\ \A t \in tasks :
       (Returns(t) /\ t.error # NoError) =>
         pgGranules' = pgGranules /\ pgFiles' = pgFiles
  /\ (pgGranules' # pgGranules \/ pgFiles' # pgFiles) =>
       \E t \in tasks :
         /\ Returns(t) /\ t.error = NoError
         /\ HoldsMigrated(pgGranules', pgFiles', t.rec)

C3_Atomicity == []C3_State /\ [][C3_Step]_vars

\* C3 witness: an invocation has failed after writing its granule and one of
\* its files in the transaction, and the destination holds no row of it.
C3_Witness ==
  \E t \in tasks :
    /\ t.pc = "done" /\ t.outcome = "failed"
    /\ t.wGranule # {} /\ t.wFiles # {}
    /\ RowsOf(pgGranules, t.rec) = {}
    /\ \A f \in t.wFiles : f \notin pgFiles

\* The records the request of the run selects from the source table.
Selected ==
  IF search.type = "query" THEN Range(QueryItems(dynamo, search.KeyCondition))
  ELSE IF search.type = "scan" THEN Range(dynamo)
  ELSE {}

\* The run was left with an error by the source store: by DynamoDB rejecting
\* the query, or by the failed page read of a scan segment.
ThrownBySource ==
  \/ search.type = "query" /\ search.KeyCondition = {} /\ tasks = {}
  \/ search.type = "scan" /\ FailedSegments # {}

\* C4 (record-level errors never abort).  An invocation that ended with an
\* error other than RecordAlreadyMigrated is counted failed and logged, the
\* run is not left with an error on its account, and when the strategy has
\* returned every selected record has been handed over and settled.
C4_NoAbort ==
  /\ \A t \in tasks :
       (t.pc = "done" /\ t.error \notin {NoError, RecordAlreadyMigrated}) =>
         /\ t.outcome = "failed"
         /\ Logged(t.rec)
  /\ pc = "thrown" => ThrownBySource
  /\ pc \in {"close", "store", "done"} =>
       /\ result.granulesResult.total_dynamo_db_records = Cardinality(Selected)
       /\ result.granulesResult.migrated + result.granulesResult.skipped
            + result.granulesResult.failed = Cardinality(Selected)
       /\ Len(errorLog) = result.granulesResult.failed

\* C4 witness: a query has finished whose first record failed and whose
\* second record was migrated after it.
C4_Witness ==
  /\ pc = "done" /\ search.type = "query"
  /\ Len(errorLog) = 1 /\ errorLog[1].granuleId = "G1"
  /\ result.granulesResult.failed = 1
  /\ result.granulesResult.migrated = 1
  /\ \E x \in pgGranules : x.granule_id = "G2"

InFlight == {t \in tasks : t.pc # "done"}

\* C5 (counter conservation).  At every moment the outcome counters plus the
\* invocations in flight add up to the total, for the granules and, with
\* each record weighted by its number of files, for the files; when the run
\* has finished, migrated + skipped + failed equals the total on both
\* results and the file total is the number of files of the processed
\* records.
C5_CounterConservation ==
  LET g == result.granulesResult
      f == result.filesResult
  IN /\ g.migrated + g.skipped + g.failed + Cardinality(InFlight)
          = g.total_dynamo_db_records
     /\ f.migrated + f.skipped + f.failed
          + FileCount({t.rec : t \in InFlight}) = f.total_dynamo_db_records
     /\ g.migrated + g.skipped + g.failed <= g.total_dynamo_db_records
     /\ f.migrated + f.skipped + f.failed <= f.total_dynamo_db_records
     /\ pc \in {"close", "store", "done"} =>
          /\ g.migrated + g.skipped + g.failed = g.total_dynamo_db_records
          /\ f.migrated + f.skipped + f.failed = f.total_dynamo_db_records
          /\ f.total_dynamo_db_records = FileCount(Selected)

\* C5 witness: a scan has finished with one record migrated and one failed,
\* both carrying files.
C5_Witness ==
  /\ pc = "done" /\ search.type = "scan"
  /\ result.granulesResult.migrated = 1 /\ result.granulesResult.failed = 1
  /\ result.filesResult.migrated = MaxFiles
  /\ result.filesResult.failed = MaxFiles

\* C6 (missing collection).  A record whose collection is not in the
\* destination is never written there; its invocation ends with
\* RecordDoesNotExist before anything is written, is counted failed by 1 on
\* the granule counters and by its number of files on the file counters,
\* and a line for it is in the error log; the run is not left with an error.
C6_State ==
  /\ \A x \in pgGranules : dynamo[x.granule_id].collectionId \in DOMAIN pgCollections
  /\ \A x \in pgGranules : x.collection_cumulus_id # NoId
  /\ \A t \in tasks :
       (t.rec.collectionId \notin DOMAIN pgCollections /\ t.pc # "lookup") =>
         /\ t.error = RecordDoesNotExist
         /\ t.upsert = "pending" /\ t.wGranule = {} /\ t.wFiles = {}
         /\ t.pc \in {"settle", "done"}
         /\ t.pc = "done" =>
              /\ t.outcome = "failed"
              /\ \E i \in DOMAIN errorLog :
                   errorLog[i] = [granuleId |-> t.rec.granuleId,
                                  files |-> t.rec.files,
                                  cause |-> RecordDoesNotExist]
              /\ pc = "thrown" => ThrownBySource

C6_Step ==
  \A t \in tasks :
    (Returns(t) /\ t.rec.collectionId \notin DOMAIN pgCollections) =>
      /\ OutcomeCounters(result'.granulesResult)
           = <<result.granulesResult.migrated,
               result.granulesResult.skipped,
               result.granulesResult.failed + 1>>
      /\ OutcomeCounters(result'.filesResult)
           = <<result.filesResult.migrated,
               result.filesResult.skipped,
               result.filesResult.failed + Len(t.rec.files)>>
      /\ Len(errorLog') = Len(errorLog) + 1
      /\ pgGranules' = pgGranules /\ pgFiles' = pgFiles
      /\ pc' = pc

C6_MissingCollection == []C6_State /\ [][C6_Step]_vars

\* C6 witness: a record with files whose collection is missing has been
\* counted failed and logged, and the run has finished.
C6_Witness ==
  /\ pc = "done"
  /\ \E t \in tasks :
       /\ t.pc = "done" /\ t.rec.collectionId = "Cmissing"
       /\ t.rec.files # <<>>
       /\ t.outcome = "failed"
  /\ result.filesResult.failed >= MaxFiles
  /\ Len(errorLog) >= 1

\* C7 (independence of executions).  For a record whose execution is not in
\* the destination and whose collection is: the failed lookup of the
\* execution is not an error of the invocation, the execution id stays
\* unset, and when the transaction succeeds the record is counted migrated
\* and its destination row has no execution.
C7_ExecutionIndependence ==
  \A t \in tasks :
    (/\ t.rec.execution \notin DOMAIN pgExecutions
     /\ t.rec.collectionId \in DOMAIN pgCollections
     /\ t.pc # "lookup") =>
      /\ t.error # RecordDoesNotExist
      /\ t.executionCumulusId = NoId
      /\ (t.pc = "done" /\ t.error = NoError) =>
           /\ t.outcome = "migrated"
           /\ RowsOf(pgGranules, t.rec) # {}
           /\ \A x \in RowsOf(pgGranules, t.rec) : x.executions = {}

\* C7 witness: a record with files whose execution is missing has been
\* migrated, and its row has no execution.
C7_Witness ==
  \E t \in tasks :
    /\ t.pc = "done" /\ t.outcome = "migrated"
    /\ t.rec.execution \notin DOMAIN pgExecutions
    /\ t.rec.files # <<>>
    /\ \E x \in pgGranules : x.granule_id = t.rec.granuleId /\ x.executions = {}

\* C8 (write rejected).  When the upsert of the granule affects no row, the
\* invocation ends with PostgresUpdateFailed, none of its files is migrated,
\* nothing of it reaches the destination, and it is counted failed (not
\* skipped, not migrated) and logged.
C8_State ==
  \A t \in tasks :
    t.upsert = "rejected" =>
      /\ t.error = PostgresUpdateFailed
      /\ t.pc \in {"settle", "done"}
      /\ t.wGranule = {} /\ t.wFiles = {}
      /\ RowsOf(pgGranules, t.rec) = t.existing
      /\ t.pc = "done" =>
           /\ t.outcome = "failed"
           /\ \E i \in DOMAIN errorLog :
                errorLog[i] = [granuleId |-> t.rec.granuleId,
                               files |-> t.rec.files,
                               cause |-> PostgresUpdateFailed]

C8_Step ==
  \A t \in tasks :
    (Returns(t) /\ t.upsert = "rejected") =>
      /\ pgGranules' = pgGranules /\ pgFiles' = pgFiles
      /\ OutcomeCounters(result'.granulesResult)
           = <<result.granulesResult.migrated,
               result.granulesResult.skipped,
               result.granulesResult.failed + 1>>
      /\ OutcomeCounters(result'.filesResult)
           = <<result.filesResult.migrated,
               result.filesResult.skipped,
               result.filesResult.failed + Len(t.rec.files)>>

C8_WriteRejected == []C8_State /\ [][C8_Step]_vars

\* C8 witness: the upsert of a record newer than its destination row has
\* been rejected and the record counted failed.
C8_Witness ==
  \E t \in tasks :
    /\ t.pc = "done" /\ t.upsert = "rejected" /\ t.outcome = "failed"
    /\ t.existing # {} /\ t.rec.files # <<>>

\* C9 (source selector routing).  Once a run has chosen its strategy: with a
\* granuleId the request is a query whose key condition is on that
\* granuleId; otherwise, with a collectionId, a query on the collection
\* index whose key condition is on that collectionId; otherwise a scan.  A
\* query always has a key condition.
C9_Routing ==
  search.type # "none" =>
    /\ search.type \in {"query", "scan"}
    /\ search.type = "query" => search.KeyCondition # {}
    /\ search =
         IF Truthy(params.granuleId)
           THEN [type |-> "query", IndexName |-> Undefined,
                 KeyCondition |-> {<<"granuleId", params.granuleId>>}]
         ELSE IF Truthy(params.collectionId)
           THEN [type |-> "query", IndexName |-> "collectionId-granuleId-index",
                 KeyCondition |-> {<<"collectionId", params.collectionId>>}]
         ELSE [type |-> "scan", IndexName |-> Undefined, KeyCondition |-> {}]

\* C10 (filter audit).  During and after a query the filters descriptor of
\* the granule result is the key condition of the query: the granuleId when
\* one is given, also when a collectionId is given too, otherwise the
\* collectionId; during and after a scan there is no filters descriptor.
C10_FilterAudit ==
  /\ search.type = "query" =>
       /\ result.granulesResult.filters = search.KeyCondition
       /\ Truthy(params.granuleId) =>
            result.granulesResult.filters = {<<"granuleId", params.granuleId>>}
       /\ (~Truthy(params.granuleId) /\ Truthy(params.collectionId)) =>
            result.granulesResult.filters = {<<"collectionId", params.collectionId>>}
  /\ search.type = "scan" => result.granulesResult.filters = {}
  /\ result.filesResult.filters = {}

\* C10 witness: a query with both parameters given has finished and the
\* descriptor names the granuleId.
C10_Witness ==
  /\ pc = "done"
  /\ Truthy(params.granuleId) /\ Truthy(params.collectionId)
  /\ result.granulesResult.total_dynamo_db_records = 1
  /\ result.granulesResult.filters = {<<"granuleId", params.granuleId>>}

\* C11 (write-concurrency bound).  On the scan path the invocations of one
\* page that have their transaction open, those that have not returned, are
\* never more than writeConcurrency; the other items of the page wait.
C11_WriteConcurrencyBound ==
  \A s \in Segments :
    /\ Cardinality(Active(s)) <= WriteConcurrency
    /\ segs[s].page # {} => Cardinality(Active(s)) = WriteConcurrency

\* C11 witness: a page holds more items than writeConcurrency; as many
\* invocations as the bound allows are running and an item waits.
C11_Witness ==
  \E s \in Segments :
    /\ Cardinality(Active(s)) = WriteConcurrency
    /\ segs[s].page # {}
    /\ \A t \in Active(s) : t.pc = "files"

\* Segment s is delivered a page in this step.
PageRead(s) ==
  /\ unscanned' # unscanned
  /\ \E t \in tasks' : t.owner = s /\ t \notin tasks

\* C12 (backpressure).  A segment requests its next page, whether the read
\* succeeds or fails, only when every item of its current page has been
\* started and every invocation for it has returned; the records of a
\* segment in flight or waiting are those of one page.
C12_State ==
  \A s \in Segments :
    Cardinality(Active(s)) + Cardinality(segs[s].page) <= ScanLimit

C12_Step ==
  \A s \in Segments :
    (PageRead(s) \/ (segs[s].pc = "scanning" /\ segs'[s].pc = "failed")) =>
      /\ segs[s].page = {}
      /\ \A t \in tasks : t.owner = s => t.pc = "done"

C12_Backpressure == []C12_State /\ [][C12_Step]_vars

\* C12 witness: both records were handed over, the first has been settled
\* and the only invocation there is runs for a segment: that segment read
\* its second page after the invocation of its first page had returned.
C12_Witness ==
  /\ pc = "scan"
  /\ result.granulesResult.total_dynamo_db_records = 2
  /\ result.granulesResult.migrated + result.granulesResult.skipped
       + result.granulesResult.failed = 1
  /\ \E t \in tasks : tasks = {t} /\ t.owner \in Segments /\ t.pc # "done"

\* C13 (at-least-once visit).  When a parallel scan has ended without a
\* failed read, every record of the source table has been handed to
\* migrateGranuleAndFilesViaTransaction, however the records were spread
\* over the segments and their pages.
C13_AtLeastOnce ==
  (search.type = "scan" /\ pc \in {"close", "store", "done"}) =>
    /\ FailedSegments = {}
    /\ handed = Range(dynamo)
    /\ result.granulesResult.total_dynamo_db_records >= Cardinality(Range(dynamo))

\* C13 witness: a scan has ended in which the two records were returned to
\* two different segments.
C13_Witness ==
  /\ search.type = "scan" /\ pc = "done"
  /\ handed = Range(dynamo)
  /\ \E t, u \in tasks :
       /\ t.owner # u.owner
       /\ t.rec.granuleId = "G1" /\ u.rec.granuleId = "G2"
       /\ t.pc = "done" /\ u.pc = "done"

\* C14 (segment failure isolation).  The failed page read of a segment ends
\* that segment and nothing else: the step leaves the other segments, the
\* invocations in flight, the counters and the run as they are, and a
\* segment whose page has returned can read its next page also when other
\* segments have failed.
C14_State ==
  (pc = "scan" /\ FailedSegments # {}) =>
    \A s \in Segments :
      (segs[s].pc = "scanning" /\ PageReturned(s) /\ unscanned # {}) =>
        ENABLED ScanPage(s)

C14_Step ==
  \A s \in Segments :
    (pc = "scan" /\ segs[s].pc = "scanning" /\ segs'[s].pc = "failed") =>
      /\ \A x \in Segments \ {s} : segs'[x] = segs[x]
      /\ tasks' = tasks
      /\ unscanned' = unscanned
      /\ result' = result
      /\ pc' = "scan"

C14_SegmentIsolation == []C14_State /\ [][C14_Step]_vars

\* C14 witness: one segment has failed and another goes on with its page:
\* an invocation runs for it and an item of its page is still to start.
C14_Witness ==
  /\ pc = "scan"
  /\ \E s, x \in Segments :
       /\ segs[s].pc = "failed"
       /\ segs[x].pc = "scanning"
       /\ Active(x) # {}
       /\ segs[x].page # {}

\* C15 (cancellation).  When the failed read of a segment has left
\* migrateGranulesAndFiles as an error, no invocation is in flight and no
\* item of a page is waiting: everything handed over has been counted
\* migrated, skipped or failed.
C15_Cancellation ==
  (pc = "thrown" /\ search.type = "scan") =>
    /\ FailedSegments # {}
    /\ \A t \in tasks : t.pc = "done" /\ t.outcome \in {"migrated", "skipped", "failed"}
    /\ \A s \in Segments : segs[s].page = {}
    /\ result.granulesResult.migrated + result.granulesResult.skipped
         + result.granulesResult.failed = Cardinality(handed)
    /\ result.granulesResult.total_dynamo_db_records = Cardinality(handed)

\* C15 witness: the scan has ended as an error; one segment failed on its
\* first read and another segment has migrated a record with its files.
C15_Witness ==
  /\ pc = "thrown" /\ search.type = "scan"
  /\ \E s \in FailedSegments : OwnedBy(s) = {}
  /\ \E t \in tasks :
       /\ t.pc = "done" /\ t.outcome = "migrated" /\ t.rec.files # <<>>
       /\ t.owner \notin FailedSegments

\* C16 (persisted error log).  However a run ends, by returning its result
\* or by an error of the query or of a scan segment, the error write
\* streams have been closed and the error log has been stored.
C16_ErrorLogPersisted ==
  pc \in {"done", "thrown"} => stream = "stored"

\* C17 (no throw for data quality).  migrateGranulesAndFiles is left by an
\* error only when the source or destination store is unavailable: not for
\* the content of a record, and not for anything else.
C17_ThrowsOnlyWhenUnavailable ==
  pc = "thrown" => search.type = "scan" /\ FailedSegments # {}

\* C18 (TransientUnavailable).  When the destination store fails while a
\* record of a page is migrated, the error is not counted as the failed
\* outcome of the record: it ends the scan segment of the page.
C18_UnavailablePropagates ==
  \A t \in tasks :
    (t.owner \in Segments /\ t.pc = "done" /\ t.error = DbError) =>
      /\ t.outcome # "failed"
      /\ segs[t.owner].pc = "failed"

\* The rows a step adds to or removes from a table.
Changed(old, new) == (new \ old) \cup (old \ new)

\* C19 (transaction ownership).  The transaction of an invocation holds
\* writes of its own record only, one granule row and file rows of that
\* granule; the destination changes only when one invocation returns, and
\* then only in the rows of the record of that invocation, also while other
\* invocations have their transactions open.
C19_State ==
  \A t \in tasks :
    /\ Cardinality(t.wGranule) <= 1
    /\ \A x \in t.wGranule : x.granule_id = t.rec.granuleId
    /\ \A f \in t.wFiles : f.bucket_key \in Range(t.rec.files)

C19_Step ==
  /\ Cardinality({t \in tasks : Returns(t)}) <= 1
  /\ (pgGranules' # pgGranules \/ pgFiles' # pgFiles) =>
       \E t \in tasks : Returns(t)
  /\ \A t \in tasks :
       Returns(t) =>
         /\ \A x \in Changed(pgGranules, pgGranules') :
              x.granule_id = t.rec.granuleId
         /\ \A f \in Changed(pgFiles, pgFiles') :
              f.bucket_key \in Range(t.rec.files)

C19_TransactionOwnership == []C19_State /\ [][C19_Step]_vars

\* C19 witness: two invocations of different segments have written in
\* their transactions at the same time, and neither write is in the
\* destination.
C19_Witness ==
  \E t, u \in tasks :
    /\ t.owner # u.owner
    /\ t.pc = "settle" /\ u.pc = "files"
    /\ t.error = NoError /\ t.wFiles # {}
    /\ u.wGranule # {}
    /\ pgGranules = {}

\* C20 (files follow their granule).  File rows are written only in a
\* transaction in which the granule of the record has been upserted, and
\* carry the cumulus id that upsert returned; every file row of the
\* destination references a granule row of the destination; the return of
\* a skipped or failed invocation changes no file row.
C20_State ==
  /\ \A t \in tasks :
       t.wFiles # {} =>
         /\ t.upsert = "written"
         /\ t.cumulusId # NoId
         /\ \A f \in t.wFiles :
              /\ f.granule_cumulus_id = t.cumulusId
              /\ \E x \in t.wGranule : x.cumulus_id = f.granule_cumulus_id
  /\ \A t \in tasks :
       (t.error \in {RecordAlreadyMigrated, RecordDoesNotExist, PostgresUpdateFailed}) =>
         t.wFiles = {}
  /\ \A f \in pgFiles :
       \E x \in pgGranules :
         /\ x.cumulus_id = f.granule_cumulus_id
         /\ f.bucket_key \in Range(dynamo[x.granule_id].files)

C20_Step ==
  /\ \A t \in tasks :
       (Returns(t) /\ t.error # NoError) => pgFiles' = pgFiles
  /\ \A f \in pgFiles' \ pgFiles :
       \E t \in tasks :
         /\ Returns(t) /\ t.error = NoError /\ t.upsert = "written"
         /\ f.granule_cumulus_id = t.cumulusId
         /\ \E x \in pgGranules' :
              x.cumulus_id = t.cumulusId /\ x.granule_id = t.rec.granuleId

C20_FilesFollowGranule == []C20_State /\ [][C20_Step]_vars

\* C20 witness: a record with files has been migrated and its file rows
\* reference its granule row, while the other record, with files too, has
\* failed and has no file row.
C20_Witness ==
  \E t, u \in tasks :
    /\ t.pc = "done" /\ t.outcome = "migrated" /\ t.rec.files # <<>>
    /\ \E x \in pgGranules :
         /\ x.granule_id = t.rec.granuleId
         /\ \A i \in DOMAIN t.rec.files :
              [bucket_key |-> t.rec.files[i],
               granule_cumulus_id |-> x.cumulus_id] \in pgFiles
    /\ u.pc = "done" /\ u.outcome = "failed" /\ u.rec.files # <<>>
    /\ \A f \in pgFiles : f.bucket_key \notin Range(u.rec.files)


\* The keys of the destination rows.
GranuleKeys(rows) == {<<x.granule_id, x.collection_cumulus_id>> : x \in rows}

FileKeysOf(rows) == {f.bucket_key : f \in rows}

\* C21 (no deletion).  No step of any run, and no step between two runs,
\* removes a granule key (granule_id, collection_cumulus_id) or a file key
\* from the destination: the sets of keys never shrink.
C21_NoDeletion ==
  [][/\ GranuleKeys(pgGranules) \subseteq GranuleKeys(pgGranules')
     /\ FileKeysOf(pgFiles) \subseteq FileKeysOf(pgFiles')]_vars

\* C21 witness: in a second run a granule row that was in the destination
\* has been updated, while the row and the files of the other record, left
\* by the first run, are still there.
C21_Witness ==
  /\ runs = 2
  /\ \E t \in tasks :
       /\ t.pc = "done" /\ t.outcome = "migrated" /\ t.existing # {}
       /\ \E x \in pgGranules : x.granule_id # t.rec.granuleId
       /\ \E f \in pgFiles : f.bucket_key \notin Range(t.rec.files)

Counters == {"total_dynamo_db_records", "migrated", "skipped", "failed"}

Outcomes == {"migrated", "skipped", "failed"}

\* C22 (aggregation under concurrency).  While the invocations of several
\* segments run against the one result object, the granule total is the
\* number of invocations started, and the outcome counters add up to the
\* number of invocations that have returned; the return of an invocation
\* adds 1 to the counter of its outcome and nothing to the two others, and
\* handing over records adds their number to the total.  Hence the final
\* counters are the numbers of invocations per outcome.
C22_State ==
  /\ result.granulesResult.total_dynamo_db_records = Cardinality(handed)
  /\ result.granulesResult.migrated + result.granulesResult.skipped
       + result.granulesResult.failed
       = Cardinality(handed) - Cardinality(InFlight)
  /\ \A c \in Outcomes :
       result.granulesResult[c]
         >= Cardinality({t \in tasks : t.pc = "done" /\ t.outcome = c})

C22_Step ==
  /\ \A t \in tasks :
       Returns(t) =>
         \A c \in Outcomes :
           result'.granulesResult[c]
             = result.granulesResult[c] + (IF c = Outcome(t.error) THEN 1 ELSE 0)
  /\ pc' # "idle" =>
       result'.granulesResult.total_dynamo_db_records
         = result.granulesResult.total_dynamo_db_records
             + Cardinality(handed' \ handed)

C22_AggregatorSafe == []C22_State /\ [][C22_Step]_vars

\* C22 witness: the invocations of two segments were counted on the total
\* before either returned on the counters; one has been counted failed and
\* the other, with its transaction still open, is about to be counted
\* migrated.
C22_Witness ==
  /\ result.granulesResult.total_dynamo_db_records = 2
  /\ result.granulesResult.failed = 1
  /\ \E t, u \in tasks :
       /\ t.owner # u.owner
       /\ t.pc = "done" /\ t.outcome = "failed"
       /\ u.pc = "settle" /\ u.error = NoError

\* C23 (monotone counters).  Over every step of a run no counter of the
\* granule result or of the file result decreases.
C23_MonotoneCounters ==
  [][pc' # "idle" =>
       \A c \in Counters :
         /\ result'.granulesResult[c] >= result.granulesResult[c]
         /\ result'.filesResult[c] >= result.filesResult[c]]_vars

\* C23 witness: in one run the counters have grown on both results, for a
\* skipped record and for a migrated one.
C23_Witness ==
  /\ pc = "done"
  /\ result.granulesResult.skipped = 1
  /\ result.granulesResult.migrated = 1
  /\ result.granulesResult.total_dynamo_db_records = 2
  /\ result.filesResult.total_dynamo_db_records > 0

\* C24 (error sink).  The error stream holds one line per record counted
\* failed; the return of a failed invocation appends one line with the
\* granuleId, the files and the cause of the record, the return of a
\* migrated or skipped invocation leaves the stream as it is, and within a
\* run nothing else writes to it.
C24_State == Len(errorLog) = result.granulesResult.failed

C24_Step ==
  /\ \A t \in tasks :
       Returns(t) =>
         errorLog' = IF Outcome(t.error) = "failed"
                       THEN Append(errorLog,
                                   [granuleId |-> t.rec.granuleId,
                                    files |-> t.rec.files,
                                    cause |-> t.error])
                       ELSE errorLog
  /\ (errorLog' # errorLog /\ pc' # "idle") => \E t \in tasks : Returns(t)

C24_ErrorSink == []C24_State /\ [][C24_Step]_vars

\* C24 witness: a run has finished with one record failed and one skipped,
\* and the stored error stream holds the line of the failed record only.
C24_Witness ==
  /\ pc = "done"
  /\ stream = "stored"
  /\ result.granulesResult.failed = 1
  /\ result.granulesResult.skipped = 1
  /\ Len(errorLog) = 1
  /\ \E t \in tasks :
       /\ t.pc = "done" /\ t.outcome = "failed"
       /\ errorLog[1] = [granuleId |-> t.rec.granuleId, files |-> t.rec.files,
                         cause |-> t.error]


\* C25 (progress logging).  The progress observations of a run are the
\* multiples of loggingInterval the granule total has reached, each logged
\* once and in order, whatever the interleaving of the invocations; a step
\* that logs one changes the total by the records it hands over only, the
\* outcome counters only by the invocation that returns in it, and the
\* destination only by the commit of that invocation.
C25_State ==
  /\ Len(progress) = result.granulesResult.total_dynamo_db_records \div LoggingInterval
  /\ \A i \in DOMAIN progress : progress[i] = i * LoggingInterval

C25_Step ==
  (progress' # progress /\ pc' # "idle") =>
    /\ result'.granulesResult.total_dynamo_db_records
         = result.granulesResult.total_dynamo_db_records
             + Cardinality(handed' \ handed)
    /\ \/ /\ OutcomeCounters(result'.granulesResult)
               = OutcomeCounters(result.granulesResult)
          /\ OutcomeCounters(result'.filesResult)
               = OutcomeCounters(result.filesResult)
          /\ pgGranules' = pgGranules /\ pgFiles' = pgFiles
       \/ \E t \in tasks :
            /\ Returns(t)
            /\ result' = Received(Settled(result, t.rec, Outcome(t.error)),
                                  handed' \ handed)
            /\ (t.error # NoError) =>
                 pgGranules' = pgGranules /\ pgFiles' = pgFiles

C25_ProgressLogging == []C25_State /\ [][C25_Step]_vars

\* C25 witness: two segments have each handed over one record, the total has
\* reached loggingInterval with both invocations in flight, and it has been
\* logged once.
C25_Witness ==
  /\ progress = <<LoggingInterval>>
  /\ result.granulesResult.total_dynamo_db_records = LoggingInterval
  /\ \E t, u \in InFlight : t.owner # u.owner


\* The position of an invocation in migrateGranuleAndFilesViaTransaction.
Rank(p) ==
  CASE p = "lookup" -> 1
    [] p = "upsert" -> 2
    [] p = "files" -> 3
    [] p = "settle" -> 4
    [] p = "done" -> 5

\* C26 (no retries).  Within a run a record is handed over to one invocation
\* only: an invocation is started for records that were not handed over
\* before, an invocation moves forward through its one transaction and
\* never back, keeps the error it ended with and is counted once, and the
\* error log has one line at most for a record.
C26_State ==
  /\ \A t, u \in tasks : t.rec = u.rec => t = u
  /\ \A i, j \in DOMAIN errorLog :
       errorLog[i].granuleId = errorLog[j].granuleId => i = j
  /\ result.granulesResult.failed <= Cardinality(handed)

C26_Step ==
  /\ \A u \in tasks' \ tasks :
       u.pc = "lookup" => u.rec \notin handed /\ u.rec \in handed'
  /\ \A t \in tasks : \A u \in tasks' :
       (u.owner = t.owner /\ u.rec = t.rec) =>
         /\ Rank(u.pc) >= Rank(t.pc)
         /\ t.upsert # "pending" => u.upsert = t.upsert
         /\ t.pc \in {"settle", "done"} => u.error = t.error
         /\ t.pc = "done" => u = t

C26_NoRetries == []C26_State /\ [][C26_Step]_vars

\* C26 witness: the record selected by a query has failed, was logged and
\* counted once, left the queue, and the run has finished.
C26_Witness ==
  /\ search.type = "query"
  /\ pc = "done"
  /\ queue = <<>>
  /\ Cardinality(handed) = 1
  /\ result.granulesResult.total_dynamo_db_records = 1
  /\ result.granulesResult.failed = 1
  /\ Len(errorLog) = 1


\* chooseTargetExecution has returned or thrown.
Chosen == exec.pc \in {"returned", "thrown"}

C28_UndefinedReturned ==
  (/\ exec.pc # "none"
   /\ exec.executionArn = Undefined
   /\ exec.workflowName = Undefined) =>
    /\ exec.pc \in {"called", "returned"}
    /\ exec.queries = <<>>
    /\ Chosen => exec.value = Undefined

\* C28 witness: such a call has returned undefined although the database
\* holds executions.
C28_Witness ==
  /\ exec.pc = "returned"
  /\ exec.executionArn = Undefined
  /\ exec.workflowName = Undefined
  /\ exec.db # <<>>
  /\ exec.value = Undefined

\* C29 (workflowName given).  A call of chooseTargetExecution with a
\* workflowName and no executionArn makes one query, for its granuleId and
\* its workflowName, and returns the arn of the first execution of the
\* list the database returned, whatever that list is.
C29_FirstArnReturned ==
  (/\ Chosen
   /\ exec.executionArn = Undefined
   /\ exec.workflowName # Undefined) =>
    /\ exec.queries = <<[granuleIds |-> <<exec.granuleId>>,
                         workflowNames |-> <<exec.workflowName>>]>>
    /\ exec.pc = "returned"
    /\ exec.db # <<>>
    /\ exec.value = exec.db[1].arn


\* C30 (newer wins under races).  When the invocations for two versions of
\* a record run at the same time, no commit replaces a destination row by
\* a row of the same key with an earlier updated_at, and once the scan has
\* ended the row of a record that was migrated carries the updatedAt the
\* source holds.
C30_State ==
  pc \in {"close", "store", "done"} =>
    \A x \in pgGranules : x.updated_at = dynamo[x.granule_id].updatedAt

C30_Step ==
  \A x \in pgGranules : \A y \in pgGranules' :
    (/\ y.granule_id = x.granule_id
     /\ y.collection_cumulus_id = x.collection_cumulus_id) =>
      y.updated_at >= x.updated_at

C30_NewerWinsUnderRaces == []C30_State /\ [][C30_Step]_vars


\* C31 (lockstep outcome).  The return of an invocation increases one
\* outcome counter, the same on both results: by 1 on the granule result and
\* by the number of files of the record on the file result; the other
\* outcome counters of both results stay as they are.  The counter is
\* migrated exactly when the transaction succeeded and skipped exactly when
\* it ended with RecordAlreadyMigrated.  No file counter exceeds what the
\* records counted on the same granule counter can carry.
C31_State ==
  \A c \in Outcomes :
    result.filesResult[c] <= MaxFiles * result.granulesResult[c]

C31_Step ==
  \A t \in tasks :
    Returns(t) =>
      \E c \in Outcomes :
        /\ (c = "migrated") <=> (t.error = NoError)
        /\ (c = "skipped") <=> (t.error = RecordAlreadyMigrated)
        /\ \A d \in Outcomes :
             /\ result'.granulesResult[d]
                  = result.granulesResult[d] + (IF d = c THEN 1 ELSE 0)
             /\ result'.filesResult[d]
                  = result.filesResult[d]
                      + (IF d = c THEN Len(t.rec.files) ELSE 0)

C31_LockstepOutcome == []C31_State /\ [][C31_Step]_vars

\* C31 witness: the granule of a record was upserted and some of its files
\* written when a file failed; the record is counted failed on both
\* results and migrated on neither.
C31_Witness ==
  /\ \E t \in tasks :
       /\ t.pc = "done" /\ t.outcome = "failed"
       /\ t.upsert = "written" /\ t.wFiles # {}
  /\ result.granulesResult.failed = 1
  /\ result.filesResult.failed = MaxFiles
  /\ result.granulesResult.migrated = 0
  /\ result.filesResult.migrated = 0


\* The invocation has stopped before the upsert, and is counted failed when
\* it returns.
AbortedAsFailed(t, error) ==
  /\ t.error = error
  /\ t.pc \in {"settle", "done"}
  /\ t.upsert = "pending" /\ t.wGranule = {} /\ t.wFiles = {}
  /\ t.pc = "done" => t.outcome = "failed"

\* The lookups of invocation t have returned and left it as u.
LookedUp(t, u) ==
  /\ t.pc = "lookup" /\ u.pc # "lookup"
  /\ u.owner = t.owner /\ u.rec = t.rec
  /\ u \notin tasks
  /\ tasks' = (tasks \ {t}) \cup {u}

C33_State ==
  \A t \in tasks :
    (t.error = DbError /\ t.upsert = "pending") => AbortedAsFailed(t, DbError)

C33_Step ==
  \A t \in tasks : \A u \in tasks' :
    (LookedUp(t, u) /\ CollectionCumulusId(t.rec) # NoId) =>
      \/ AbortedAsFailed(u, DbError)
      \/ /\ u.error \in {NoError, RecordAlreadyMigrated}
         /\ u.executionCumulusId =
              IF t.rec.execution \in DOMAIN pgExecutions
                THEN pgExecutions[t.rec.execution] ELSE NoId
         /\ u.existing = ExistingRecord(pgGranules, t.rec)
         /\ u.error = RecordAlreadyMigrated => u.existing # {}
         /\ u.error = NoError <=> u.pc = "upsert"

\* C33 (only 'not found' is tolerated).  When the lookups of an invocation
\* return, either one of them threw an error other than RecordDoesNotExist,
\* and the invocation has ended with that error before anything is written
\* and is counted failed; or the invocation goes on to the conflict
\* detection and the upsert with the execution and the existing rows the
\* destination holds: no execution when the execution is not found, no
\* existing record when the granule is not found.
C33_OnlyNotFoundTolerated == []C33_State /\ [][C33_Step]_vars

\* C33 witness: in one run a lookup of one record failed with a database
\* error, nothing was written for it and it is counted failed; for the other
\* record neither the execution nor an existing row was found and it is
\* counted migrated.
C33_Witness ==
  /\ \E t, u \in tasks :
       /\ t.pc = "done" /\ t.outcome = "failed"
       /\ t.error = DbError /\ t.upsert = "pending"
       /\ u.pc = "done" /\ u.outcome = "migrated"
       /\ u.executionCumulusId = NoId /\ u.existing = {}
       /\ u.rec.execution \notin DOMAIN pgExecutions
  /\ result.granulesResult.failed = 1
  /\ result.granulesResult.migrated = 1


\* C32 (a skipped record changes nothing).  An invocation that ended with
\* RecordAlreadyMigrated found an existing row, has transcoded and written
\* nothing in its transaction, and is counted skipped; when it returns, the
\* granule rows and the file rows of the destination are what they were,
\* the row of the record, with its execution link, is the row the lookup
\* found, nothing is written to the error log and the run goes on.
C32_State ==
  \A t \in tasks :
    t.error = RecordAlreadyMigrated =>
      /\ t.pc \in {"settle", "done"}
      /\ t.existing # {}
      /\ t.upsert = "pending" /\ t.wGranule = {} /\ t.wFiles = {}
      /\ t.pc = "done" => t.outcome = "skipped"
      /\ pc = "thrown" => ThrownBySource

C32_Step ==
  \A t \in tasks :
    (Returns(t) /\ t.error = RecordAlreadyMigrated) =>
      /\ pgGranules' = pgGranules
      /\ pgFiles' = pgFiles
      /\ RowsOf(pgGranules', t.rec) = t.existing
      /\ errorLog' = errorLog
      /\ pc' = pc

C32_SkippedChangesNothing == []C32_State /\ [][C32_Step]_vars

\* C32 witness: a record with files and an execution, migrated by an
\* earlier run, has been skipped; its row with its execution link and its
\* file rows are in the destination as the lookup found them.
C32_Witness ==
  \E t \in tasks :
    /\ t.pc = "done" /\ t.outcome = "skipped"
    /\ t.rec.files # <<>>
    /\ RowsOf(pgGranules, t.rec) = t.existing
    /\ \E x \in t.existing :
         /\ x.executions # {}
         /\ \A i \in DOMAIN t.rec.files :
              [bucket_key |-> t.rec.files[i],
               granule_cumulus_id |-> x.cumulus_id] \in pgFiles


\* The tail of the queue, the records behind the one peeked.
Behind(q) == IF q = <<>> THEN {} ELSE Range(Tail(q))

\* C39 (the query path is sequential).  On the query path there is one
\* invocation at most, and so one open transaction at most, whatever
\* writeConcurrency is; it is for the record at the head of the queue, and
\* no record behind the head has been handed over.  Records are handed over
\* one at a time from the head, and the queue is shifted, by one record,
\* only when the invocation for its head has returned.
C39_State ==
  search.type = "query" =>
    /\ Cardinality(tasks) <= 1
    /\ \A t \in tasks : t.owner = 0 /\ queue # <<>> /\ t.rec = Head(queue)
    /\ handed \cap Behind(queue) = {}

C39_Step ==
  (search.type = "query" /\ pc' = "query") =>
    /\ handed' # handed =>
         /\ InFlight = {}
         /\ handed' = handed \cup {Head(queue)}
         /\ queue' = queue
    /\ queue' # queue =>
         /\ queue' = Tail(queue)
         /\ \A t \in tasks : t.pc = "done"
         /\ Head(queue) \in handed

C39_QuerySequential == []C39_State /\ [][C39_Step]_vars

\* C39 witness: a query has returned two records; the first has been
\* migrated and has left the queue, and the invocation for the second has
\* its transaction open.
C39_Witness ==
  /\ search.type = "query"
  /\ Len(queue) = 1
  /\ Cardinality(handed) = 2
  /\ \E t \in tasks : t.pc = "files" /\ t.upsert = "written"
  /\ result.granulesResult.migrated = 1


\* C40 (no write after close).  While the error streams are closed or
\* stored the strategy has returned: no invocation is in flight, the queue
\* of the query is empty, every segment of the scan has returned its last
\* page.  A line is written to the error log only while the streams are
\* open; they are closed from the open state after the strategy returned
\* and stored only from the closed state.
C40_State ==
  stream \in {"closed", "stored"} =>
    /\ pc = IF stream = "closed" THEN "store" ELSE "done"
    /\ InFlight = {}
    /\ queue = <<>>
    /\ search.type = "scan" =>
         /\ unscanned = {}
         /\ \A s \in Segments : segs[s].page = {}

C40_Step ==
  /\ Len(errorLog') > Len(errorLog) => stream = "open" /\ stream' = "open"
  /\ (stream' = "closed" /\ stream # "closed") =>
       /\ stream = "open"
       /\ pc = "close"
       /\ InFlight = {}
  /\ (stream' = "stored" /\ stream # "stored") => stream = "closed"

C40_NoWriteAfterClose == []C40_State /\ [][C40_Step]_vars

\* C40 witness: a scan in which two segments each had a failed record has
\* returned; the streams were closed and stored with the two lines in them.
C40_Witness ==
  /\ search.type = "scan"
  /\ stream = "stored"
  /\ Len(errorLog) = 2
  /\ \E t, u \in tasks :
       t.owner # u.owner /\ t.outcome = "failed" /\ u.outcome = "failed"


\* C34 (termination).  A run that has chosen its strategy ends: it returns
\* its result or throws.  On the query path every change of the queue
\* removes exactly its head, and once the queue is exhausted no record is
\* taken and the loop can only end.
C34_Ends == (pc \in {"query", "scan"}) ~> (pc \in {"done", "thrown"})

C34_State ==
  (pc = "query" /\ queue = <<>>) =>
    /\ tasks = {}
    /\ ~ENABLED QueryMigrate
    /\ ENABLED QueryEnd

C34_Step ==
  (pc = "query" /\ queue' # queue) =>
    /\ queue # <<>>
    /\ queue' = Tail(queue)
    /\ Len(queue') = Len(queue) - 1

C34_Termination == C34_Ends /\ []C34_State /\ [][C34_Step]_vars

\* C34 witness: the loop of a query that returned two records has migrated
\* both, found the queue exhausted, and the run has returned its result.
C34_Witness ==
  /\ search.type = "query"
  /\ pc = "done"
  /\ queue = <<>>
  /\ Cardinality(handed) = 2
  /\ result.granulesResult.total_dynamo_db_records = 2


\* C35 (an older start time never overwrites a newer one).  A call of
\* storePdrFromCumulusMessage writes its record only when there is no
\* stored record or the createdAt of the message is not below the stored
\* one, so over any order of messages the stored createdAt never decreases
\* and the record never disappears.  A call the condition rejects leaves
\* the stored record as it was and returns undefined; a call the store
\* fails with another error leaves it as it was and throws that error.
C35_State ==
  LET m == pdr.message
      b == pdr.before
  IN /\ pdr.result = "written" =>
          /\ m # None /\ pdr.item = m
          /\ b = None \/ m.createdAt >= b.createdAt
     /\ pdr.result \in {"undefined", "thrown"} => pdr.item = b
     /\ (m # None /\ b # None /\ m.createdAt < b.createdAt) =>
          pdr.result \in {"undefined", "thrown"}
     /\ pdr.error = ConditionalCheckFailedException <=>
          (pdr.result = "undefined" /\ m # None)
     /\ pdr.error \notin {NoError, ConditionalCheckFailedException} <=>
          pdr.result = "thrown"

C35_Step ==
  pdr.item # None =>
    /\ pdr'.item # None
    /\ pdr'.item.createdAt >= pdr.item.createdAt

C35_OlderNeverOverwrites == []C35_State /\ [][C35_Step]_vars

\* C35 witness: a completed message with an older start time than the
\* stored record was delivered late; the call returned undefined and the
\* stored record is the one of the newer workflow.
C35_Witness ==
  /\ pdr.result = "undefined"
  /\ pdr.message # None /\ pdr.before # None
  /\ pdr.message.status = "completed"
  /\ pdr.message.createdAt < pdr.before.createdAt
  /\ pdr.item = pdr.before

ValueOr(x, default) == IF x = {} THEN default ELSE CHOOSE n \in x : TRUE

\* waitForGranule polls as claimed, with r the number of retries: it makes
\* r + 1 attempts at most; an answer 500 ends it at once; it resolves on an
\* answer 200 with the status asked for; another answer is retried, and it
\* fails when the attempt after the last retry fails; once it has ended it
\* makes no attempt.
PollsWithin(r) ==
  /\ wait.attempts <= r + 1
  /\ wait.pc = "aborted" <=> (wait.attempts > 0 /\ wait.answer.statusCode = 500)
  /\ wait.pc = "resolved" =>
       /\ wait.answer.statusCode = 200
       /\ Truthy(wait.status) => wait.answer.status = wait.status
  /\ (wait.pc \in {"polling", "rejected"} /\ wait.attempts > 0) =>
       /\ wait.answer.statusCode # 500
       /\ \/ wait.answer.statusCode # 200
          \/ Truthy(wait.status) /\ wait.answer.status # wait.status
  /\ wait.pc = "rejected" <=>
       (wait.attempts = r + 1 /\ wait.answer.statusCode # 500
         /\ ~(/\ wait.answer.statusCode = 200
              /\ Truthy(wait.status) => wait.answer.status = wait.status))

PollingEnds ==
  wait.pc \in {"aborted", "resolved", "rejected"} => wait' = wait

C37_State ==
  wait.pc # "none" =>
    PollsWithin(ValueOr(wait.optionRetries,
                        ValueOr(wait.retries, DefaultRetries)))

C38_RemovedBeforeDeleted ==
  /\ \A i \in DOMAIN removal.requests :
       removal.requests[i].httpMethod = "DELETE" =>
         /\ i = 2
         /\ removal.requests[1].action = "removeFromCmr"
         /\ removal.requests[1].granuleId = removal.requests[i].granuleId
         /\ removal.removeFromCmr = 200
  /\ (removal.pc \notin {"none", "called"} /\ removal.removeFromCmr # 200) =>
       \A i \in DOMAIN removal.requests :
         removal.requests[i].httpMethod # "DELETE"

====
